---- MODULE Spec2Model ----
(***************************************************************************)
(* A model of the cocowork ACP host: the connection (request/response      *)
(* correlator and message loop), the session accumulator, and the sandbox  *)
(* (permission ledger, file operations, terminal policy).                  *)
(*                                                                         *)
(* The module holds several specifications over one set of variables:      *)
(*   Spec         the correlator: requests, responses, the waiter map      *)
(*   SpecDispatch the message loops, the subscribers, the legacy channels  *)
(*   SpecFold     the session accumulator: Session::process_update         *)
(*   SpecPrompt   a prompt from end to end, streamed, answered, cancelled  *)
(*   SpecSandbox  the sandbox behind the agent's fs/* requests             *)
(*   SpecLedger   the permission ledger: grant, revoke, check              *)
(*   SpecTerminal the terminal policy behind terminal/execute              *)
(*   SpecSession  the session operations and what they return              *)
(*   SpecFraming  the framing of the agent's stdout into JSON values       *)
(*   SpecCodec    the classification of a parsed value                     *)
(*   SpecLifecycle the child process, terminate, the end of the broadcast  *)
(*   SpecWatcher  the attribution of file changes to tool calls            *)
(*   SpecManager  the agent manager: registry, status, clients             *)
(*   SpecWaiters  the waiter map, with the outbound path in two steps      *)
(*   SpecUi       the UI's manager: threads, agents, connect and sessions  *)
(*   SpecTurn     a turn in the UI, from the message to the agent's answer *)
(*   SpecFlow     the bounded queues and pipes of the transport            *)
(* Each specification leaves the variables of the others unchanged.        *)
(***************************************************************************)
EXTENDS Integers, Sequences, FiniteSets, TLC

(***************************************************************************)
(* Bounds of the model.                                                    *)
(***************************************************************************)
\* outbound requests issued on one connection
MaxReq == 2
\* lines the agent writes when the queues are bounded
MaxWrites == 5
\* capacity of the stdin and stdout queues (100 in the source, scaled down)
QueueCap == 1
\* lines a pipe takes in, the one in the hand of the task at its end included
PipeCap == 1
\* connections the UI makes, sessions the agents create for it
MaxConnects == 2
MaxSessions == 2
\* messages the agent writes to its stdout before it stops
MaxMsgs == 3
\* subscribers of the notification broadcast channel
NumSubs == 1
\* retained values of the broadcast channel (256 in the source, scaled down)
BroadcastCapacity == 2
\* capacity of the legacy mpsc channels (AcpChannels::new(buffer))
ChannelBuffer == 2

\* session updates folded into one TaskState
MaxFolds == 3
\* tool call ids the agent uses
NumTools == 1

\* components of a path the agent or the user names
MaxPathLen == 5
\* grant_access and revoke_access calls
MaxLedgerOps == 3
\* lines the agent writes to its stdout
MaxLines == 5
\* the size at which the accumulation buffer is dropped, in tokens (1 MiB)
MaxBuffer == 7
\* values handed to parse_message
MaxValues == 2
\* operations that return an error before they send a request
MaxRefused == 1
\* grant_access and revoke_access calls ahead of the agent's requests
MaxSetupOps == 2
\* check_access calls
MaxChecks == 1
\* fs/* requests of the agent
MaxFsOps == 1
\* symbolic links followed in one path lookup
MaxLinkHops == 2

\* characters of the executable an agent names
MaxCmdLen == 3
\* arguments of a command
MaxArgs == 1
\* terminal/execute requests of the agent
MaxExecs == 1

\* tool calls registered with the watcher at one time
MaxToolCalls == 2
\* ticks of the watcher's clock
MaxNow == 3

ReqIds == 1..MaxReq
Subs == 1..NumSubs
ToolIds == 1..NumTools

VARIABLES
    \* ---- connection (acp/connection.rs, acp/transport.rs, acp/runtime.rs)
    mode,               \* "delegate": AcpConnection::new, "legacy": AcpConnection::connect
    request_id,         \* ProtocolHandler.request_id, the next id to hand out
    reqKind,            \* how each id was issued: "none", "wait", "nowait"
    pending_requests,   \* ids with a oneshot sender in the waiter map
    waiter,             \* what the caller awaiting each id has observed
    writerAlive,        \* the stdin writer task still drains stdin_tx
    stdout_rx,          \* lines read from the agent's stdout, not yet dispatched
    emitted,            \* messages the agent has written so far
    updates,            \* the session/update notifications the agent has written, in order
    requests,           \* the requests the agent has written
    stdoutClosed,       \* the agent closed its stdout
    loop,               \* message loop: "run", "await" (legacy, on the handler), "ended"
    notification_tx,    \* every value sent on the broadcast channel, in order
    sub,                \* per subscriber: subscribed, cursor, values received, lagged
    update_tx,          \* legacy mpsc channel of session updates
    consumed,           \* updates the legacy runtime task has folded
    agent_request_tx,   \* legacy mpsc channel of (request, reply sender)
    handlerAlive,       \* the legacy handler task holds agent_request_rx
    handlerResp,        \* the reply the legacy handler put in the oneshot, or none
    curReq,             \* the agent request the legacy loop awaits a reply for, or 0
    sent_responses,     \* replies written to the agent, in order
    handled,            \* agent request ids the message loop is done with
    delivLog,           \* per dispatched response: its id and the waiter that got it
    issued,             \* the ids next_id has handed out, in order
    outstandingAtClose, \* ids whose caller was still waiting when the loop ended
    \* ---- session accumulator (acp/session.rs, types/task_types.rs)
    status,             \* TaskState.status
    stop_reason,        \* TaskState.stop_reason, "none" for None
    plan,               \* TaskState.plan
    messages,           \* TaskState.messages: blocks of a kind with their fragments
    tool_calls,         \* TaskState.tool_calls, by tool call id
    artifacts,          \* TaskState.artifacts
    current_mode,       \* TaskState.context.current_mode
    updated_at,         \* TaskState.updated_at
    clock,              \* chrono::Utc::now(), one tick per fold
    folded,             \* the session updates folded so far, as the agent sent them
    \* ---- sandbox (sandbox/permissions.rs, sandbox/filesystem.rs)
    granted_paths,      \* PermissionManager.granted_paths
    entries,            \* PermissionManager.entries, in insertion order
    regranted,          \* paths whose entry was given another level in place
    fs,                 \* the file system: real location -> directory, file or link
    lastCall,           \* the last fs/* request: its method, the levels that cover
                        \* its path, the reply, and the location whose content it returned
    ledgerOps,          \* grant_access and revoke_access calls so far
    fsOps,              \* fs/* requests so far
    ledgerLog,          \* the grant_access and revoke_access calls so far, in order
    lastCheck,          \* the last check_access call: its path and what it returned
    checkOps,           \* check_access calls so far
    \* ---- terminal (sandbox/terminal.rs, types/mod.rs)
    policy,             \* the TerminalPolicy in the settings
    lastExec,           \* the last terminal/execute request and what became of it
    execOps,            \* terminal/execute requests so far
    \* ---- session operations (acp/connection.rs, acp/protocol.rs)
    capabilities,       \* AcpConnection.capabilities, absent until initialize returns
    callOf,             \* the operation that issued each request id
    returned,           \* what the operation awaiting each id returned to its caller
    refused,            \* the operations that returned an error before sending
    advertised,         \* the agent has put loadSession: true in an initialize result
    \* ---- framing of the agent's stdout (message_loop, legacy_message_loop)
    stdout_lines,       \* the lines the agent has written, not yet read by the loop
    buffer,             \* the accumulation buffer of the loop
    values,             \* the JSON values the loop has parsed, in order
    taken,              \* the lines the loop has read so far, in order
    resync,             \* the buffer overflowed and no complete JSON line was read since
    inbox,              \* parsed values the loop has still to hand to parse_message
    classified,         \* the values handed to parse_message and what it made of them
    \* ---- lifetime of the connection (acp/connection.rs, agent/, cocowork-ui)
    child,              \* the agent's child process
    connection,         \* what the host holds of the AcpConnection
    terminated,         \* terminate has returned Ok
    closedSeen,         \* the subscribers whose recv returned RecvError::Closed
    \* ---- attribution of file changes (sandbox/watcher.rs)
    active_tool_calls,  \* FileWatcher.active_tool_calls, in registration order
    now,                \* chrono::Utc::now(), in ticks
    attributed,         \* the last change attributed and what it was attributed to
    \* ---- the agent manager (agent/manager.rs)
    configs,            \* AgentManager.configs: the AgentConfig registered under each id
    states,             \* AgentManager.states: the AgentStatus kept under each id
    clients,            \* AgentManager.clients: the client held under each id, by its child
    mgrCall,            \* the last call of the manager that completed, and its result
    \* ---- the UI's manager (cocowork-ui/src/acp_integration.rs)
    manager,            \* AcpManager: its fields
    active_session_id,  \* AcpModel.active_session_id, 0 for None
    connects,           \* the agent behind each connection adapters.connect has made
    created,            \* the sessions new_session has created so far
    \* ---- the pipes and queues of the transport (acp/transport.rs)
    stdin_tx,           \* lines queued for the stdin writer task
    stdin_pipe,         \* lines the writer task took that the agent has not read yet
    stdout_pipe,        \* lines the agent wrote that the reader task has not queued yet
    agentWriting,       \* the line the agent is writing to its stdout, if any
    agentGot            \* requests of the host the agent has read and not answered

corrVars == <<request_id, reqKind, pending_requests, waiter, issued>>
agentVars == <<stdout_rx, emitted, updates, requests, stdoutClosed>>
notifVars == <<notification_tx, sub, update_tx, consumed>>
callVars == <<agent_request_tx, handlerAlive, handlerResp, curReq, sent_responses,
              handled>>
connVars == <<mode, corrVars, writerAlive, agentVars, loop, notifVars, callVars,
              delivLog, outstandingAtClose>>

foldVars == <<status, stop_reason, plan, messages, tool_calls, artifacts, current_mode,
              updated_at, clock, folded>>

sandVars == <<granted_paths, entries, regranted, fs, lastCall, ledgerOps, fsOps,
              ledgerLog, lastCheck, checkOps>>

termVars == <<policy, lastExec, execOps>>

sessVars == <<capabilities, callOf, returned, refused, advertised>>

lineVars == <<stdout_lines, buffer, values, taken, resync, inbox, classified>>

lifeVars == <<child, connection, terminated, closedSeen>>

watchVars == <<active_tool_calls, now, attributed>>

mgrVars == <<configs, states, clients, mgrCall>>

\* the parts of the host around the connection
uiVars == <<manager, active_session_id, connects, created>>

flowVars == <<stdin_tx, stdin_pipe, stdout_pipe, agentWriting, agentGot>>

hostVars == <<mgrVars, uiVars, flowVars>>

\* what the connection leaves alone
otherVars == <<foldVars, sandVars, termVars, sessVars, lineVars, lifeVars, watchVars, hostVars>>

vars == <<connVars, foldVars, sandVars, termVars, sessVars, lineVars, lifeVars, watchVars, hostVars>>

(***************************************************************************)
(* Connection                                                              *)
(***************************************************************************)
NoResp == [id |-> 0, kind |-> "none", code |-> 0]
\* JsonRpcResponse.error = None
NoError == [code |-> 0, message |-> "none"]
\* Option<AgentCapabilities> = None, and a capabilities object of a result
NoCaps == [present |-> FALSE, load_session |-> FALSE]
Caps(load_session) == [present |-> TRUE, load_session |-> load_session]
\* JsonRpcResponse.result when it is not an InitializeResult
NoResult == [capabilities |-> NoCaps, agent_capabilities |-> NoCaps]
Disconnected == [t |-> "disc", id |-> 0]
\* SessionUpdate::PromptResponseReceived for the prompt request r
PromptResponseReceived(r) == [t |-> "prompt_response", id |-> r]
Update(n) == [t |-> "upd", id |-> n]

ConnInit ==
    /\ mode \in {"delegate", "legacy"}
    /\ request_id = 1
    /\ reqKind = [r \in ReqIds |-> "none"]
    /\ pending_requests = {}
    /\ waiter = [r \in ReqIds |-> "none"]
    /\ writerAlive = TRUE
    /\ stdout_rx = <<>>
    /\ emitted = 0
    /\ updates = <<>>
    /\ requests = {}
    /\ stdoutClosed = FALSE
    /\ loop = "run"
    /\ notification_tx = <<>>
    /\ sub = [s \in Subs |-> [on |-> FALSE, from |-> 0, pos |-> 0, rcv |-> <<>>,
                              lagged |-> FALSE]]
    /\ update_tx = <<>>
    /\ consumed = <<>>
    /\ agent_request_tx = <<>>
    /\ handlerAlive = TRUE
    /\ handlerResp = NoResp
    /\ curReq = 0
    /\ sent_responses = <<>>
    /\ handled = {}
    /\ delivLog = <<>>
    /\ issued = <<>>
    /\ outstandingAtClose = {}
    /\ capabilities = NoCaps
    /\ callOf = [r \in ReqIds |-> "none"]
    /\ returned = [r \in ReqIds |-> [outcome |-> "pending", prefix |-> "none",
                                      error |-> NoError]]
    /\ refused = <<>>
    /\ advertised = FALSE

\* a faulty counter: the id is read and the counter left as it is
next_id_stuck(counter) == counter

\* ProtocolHandler::next_id: fetch_add(1)
next_id(counter) == counter + 1

\* pending.insert(request_id, tx)
InsertSlot(pending, r) == pending \cup {r}

\* a faulty lookup: whatever slot is in the map, whichever id is asked for
TakeSlotAny(pending, id) == IF pending # {} THEN CHOOSE x \in pending : TRUE ELSE 0

\* pending.remove(&id) in the message loop: the slot stored under the id, 0 if none
TakeSlot(pending, id) == IF id \in pending THEN id ELSE 0

\* a faulty removal: the map is emptied
RemoveSlotAll(pending, id) == {}

\* pending.remove(&id): the map without the slot
RemoveSlot(pending, id) == pending \ {id}

\* send_request: send_request_with_receiver, then await the receiver for 30 s.
\* The request is registered, written to stdin_tx, and the caller waits. When
\* the writer task is gone the send fails, the slot is removed again and the
\* error is returned.
send_request ==
    /\ request_id <= MaxReq
    /\ LET r == request_id IN
       /\ request_id' = next_id(request_id)
       /\ issued' = Append(issued, r)
       /\ reqKind' = [reqKind EXCEPT ![r] = "wait"]
       /\ IF writerAlive
            THEN /\ pending_requests' = InsertSlot(pending_requests, r)
                 /\ waiter' = [waiter EXCEPT ![r] = "waiting"]
            ELSE /\ pending_requests' = RemoveSlot(InsertSlot(pending_requests, r), r)
                 /\ waiter' = [waiter EXCEPT ![r] = "senderr"]
    /\ UNCHANGED <<mode, writerAlive, agentVars, loop, notifVars, callVars, delivLog,
                   outstandingAtClose>>

\* send_request_with_receiver up to `transport.send_request(..).await`: the
\* request has its id and its slot is in the map
RegisterSlot ==
    /\ request_id <= MaxReq
    /\ LET r == request_id IN
       /\ request_id' = next_id(request_id)
       /\ issued' = Append(issued, r)
       /\ reqKind' = [reqKind EXCEPT ![r] = "wait"]
       /\ pending_requests' = InsertSlot(pending_requests, r)
       /\ waiter' = [waiter EXCEPT ![r] = "sending"]
    /\ UNCHANGED <<mode, writerAlive, agentVars, loop, notifVars, callVars, delivLog,
                   outstandingAtClose>>
    /\ UNCHANGED otherVars

\* send_request_with_receiver from the return of transport.send_request on:
\* Ok and the caller awaits the receiver, or Err and the slot is removed
SendReturns(r) ==
    /\ waiter[r] = "sending"
    /\ IF writerAlive
         THEN /\ waiter' = [waiter EXCEPT ![r] = "waiting"]
              /\ UNCHANGED pending_requests
         ELSE /\ pending_requests' = RemoveSlot(pending_requests, r)
              /\ waiter' = [waiter EXCEPT ![r] = "senderr"]
    /\ UNCHANGED <<mode, request_id, reqKind, issued, writerAlive, agentVars, loop,
                   notifVars, callVars, delivLog, outstandingAtClose>>
    /\ UNCHANGED otherVars

\* a request of no particular operation
SendRequest ==
    /\ send_request
    /\ UNCHANGED otherVars

\* prompt_streaming / send_prompt: send_request_no_wait. The request takes an
\* id and is written to stdin_tx; no slot is registered.
prompt_streaming ==
    /\ request_id <= MaxReq
    /\ LET r == request_id IN
       /\ request_id' = next_id(request_id)
       /\ issued' = Append(issued, r)
       /\ reqKind' = [reqKind EXCEPT ![r] = "nowait"]
       /\ waiter' = [waiter EXCEPT ![r] = IF writerAlive THEN "none" ELSE "senderr"]
    /\ UNCHANGED <<mode, pending_requests, writerAlive, agentVars, loop, notifVars,
                   callVars, delivLog, outstandingAtClose>>

\* a streaming prompt of a caller that keeps no state of its own
PromptStreaming ==
    /\ prompt_streaming
    /\ UNCHANGED otherVars

\* send_request: tokio::time::timeout(30 s, rx) elapses. The receiver is
\* dropped and Timeout returned; the waiter map is not touched.
RequestTimeout(r) ==
    /\ waiter[r] = "waiting"
    /\ waiter' = [waiter EXCEPT ![r] = "timeout"]
    /\ UNCHANGED <<mode, request_id, reqKind, pending_requests, issued, writerAlive,
                   agentVars, loop, notifVars, callVars, delivLog, outstandingAtClose>>
    /\ UNCHANGED otherVars

\* the caller drops the future of send_request while it awaits the response:
\* the receiver goes with it; the waiter map is not touched
CancelWait(r) ==
    /\ waiter[r] = "waiting"
    /\ waiter' = [waiter EXCEPT ![r] = "cancelled"]
    /\ UNCHANGED <<mode, request_id, reqKind, pending_requests, issued, writerAlive,
                   agentVars, loop, notifVars, callVars, delivLog, outstandingAtClose>>
    /\ UNCHANGED otherVars

\* write_stdin_task: a write or flush error ends the writer task
WriterFails ==
    /\ writerAlive
    /\ writerAlive' = FALSE
    /\ UNCHANGED <<mode, corrVars, agentVars, loop, notifVars, callVars, delivLog,
                   outstandingAtClose>>
    /\ UNCHANGED otherVars

(***************************************************************************)
(* The agent: it writes responses, session updates and requests to its     *)
(* stdout, in any order, and may close it. read_stdout_task forwards each  *)
(* line to stdout_rx.                                                      *)
(***************************************************************************)
AgentUnchanged ==
    UNCHANGED <<mode, corrVars, writerAlive, loop, notifVars, callVars, delivLog,
                outstandingAtClose, otherVars>>

\* a response to a request id the host has issued (possibly a second one)
AgentResponds ==
    /\ ~stdoutClosed /\ emitted < MaxMsgs
    /\ \E r \in ReqIds :
          /\ r < request_id
          /\ stdout_rx' = Append(stdout_rx, [t |-> "resp", id |-> r, stop |-> "none",
                                            error |-> NoError, result |-> NoResult])
    /\ emitted' = emitted + 1
    /\ UNCHANGED <<updates, requests, stdoutClosed>>
    /\ AgentUnchanged

\* a session/update notification; it is identified by its place in the
\* agent's output
AgentUpdates ==
    /\ ~stdoutClosed /\ emitted < MaxMsgs
    /\ stdout_rx' = Append(stdout_rx, [t |-> "upd", id |-> emitted + 1])
    /\ updates' = Append(updates, emitted + 1)
    /\ emitted' = emitted + 1
    /\ UNCHANGED <<requests, stdoutClosed>>
    /\ AgentUnchanged

\* the methods of a request: one the handlers have an arm for, one they do not
AgentMethods == {"fs/read_text_file", "fs/no_such_method"}
\* the params of a request, as serde_json::from_value finds them
ParamShapes == {"well_formed", "malformed"}

\* a request with an id of the agent's: its method may be unknown to the
\* host and its params may fail to deserialize
AgentRequests ==
    /\ ~stdoutClosed /\ emitted < MaxMsgs
    /\ \E method \in AgentMethods, params \in ParamShapes :
          LET request == [id |-> emitted + 1, method |-> method, params |-> params] IN
          /\ stdout_rx' = Append(stdout_rx, [t |-> "req", id |-> emitted + 1,
                                             request |-> request])
          /\ requests' = requests \cup {request}
    /\ emitted' = emitted + 1
    /\ UNCHANGED <<updates, stdoutClosed>>
    /\ AgentUnchanged

\* read_stdout_task reads 0 bytes: the sender of stdout_rx is dropped
AgentClosesStdout ==
    /\ ~stdoutClosed
    /\ stdoutClosed' = TRUE
    /\ stdout_rx' = Append(stdout_rx, [t |-> "eof", id |-> 0])
    /\ UNCHANGED <<emitted, updates, requests>>
    /\ AgentUnchanged

(***************************************************************************)
(* The message loop (message_loop and legacy_message_loop)                 *)
(***************************************************************************)
HeadIs(t) == loop = "run" /\ stdout_rx # <<>> /\ Head(stdout_rx).t = t

\* a faulty channel: the newest value overtakes the older ones
BroadcastSendFront(log, v) == <<v>> \o log

\* broadcast::Sender::send: the value is appended to the channel
BroadcastSend(log, v) == Append(log, v)

\* AcpMessage::Response, both loops: deliver to the slot under the id, or drop
DispatchResponse ==
    /\ HeadIs("resp")
    /\ LET m == Head(stdout_rx)
           slot == TakeSlot(pending_requests, m.id)
           live == slot # 0 /\ waiter[slot] = "waiting"
       IN /\ pending_requests' = RemoveSlot(pending_requests, m.id)
          /\ waiter' = IF live THEN [waiter EXCEPT ![slot] = "response"] ELSE waiter
          /\ delivLog' = Append(delivLog, [id |-> m.id, slot |-> slot, stop |-> m.stop,
                                          error |-> m.error, result |-> m.result,
                                          to |-> IF live THEN slot ELSE 0,
                                          had |-> m.id \in pending_requests
                                                  /\ waiter[m.id] = "waiting"])
    /\ stdout_rx' = Tail(stdout_rx)
    /\ UNCHANGED <<mode, request_id, reqKind, issued, writerAlive, emitted, updates,
                   requests, stdoutClosed, loop, notifVars, callVars, outstandingAtClose>>
    /\ UNCHANGED otherVars

\* handle_agent_request, and the legacy handler task: a result, or an error
\* response built by create_error_response, under the id of the request
HandlerOutcomes == {"result", "error"}

\* the reply to the request under its id: a result, or an error with a code
Reply(request, code) ==
    [id |-> request.id, kind |-> IF code = 0 THEN "result" ELSE "error", code |-> code]

\* AcpConnection::handle_agent_request: the match on the method, then
\* from_value on the params, then the delegate's call (k: what it returned)
handle_agent_request(request, k) ==
    IF request.method = "fs/no_such_method" THEN Reply(request, -32601)
    ELSE IF request.params = "malformed" THEN Reply(request, -32602)
    ELSE IF k = "error" THEN Reply(request, -32603)
    ELSE Reply(request, 0)

\* runtime.rs, handle_agent_request under spawn_agent_request_handler: the
\* match on the method, then `from_value(params)?` and the sandbox calls
\* (k: what they returned); every Err that comes out is answered with -32603
spawn_agent_request_handler(request, k) ==
    IF request.method = "fs/no_such_method" THEN Reply(request, -32601)
    ELSE IF request.params = "malformed" THEN Reply(request, -32603)
    ELSE IF k = "error" THEN Reply(request, -32603)
    ELSE Reply(request, 0)

\* AcpMessage::SessionUpdate in message_loop: broadcast to the subscribers
DispatchUpdate ==
    /\ mode = "delegate"
    /\ HeadIs("upd")
    /\ notification_tx' = BroadcastSend(notification_tx, Update(Head(stdout_rx).id))
    /\ stdout_rx' = Tail(stdout_rx)
    /\ UNCHANGED <<mode, corrVars, writerAlive, emitted, updates, requests, stdoutClosed,
                   loop, sub, update_tx, consumed, callVars, delivLog,
                   outstandingAtClose>>
    /\ UNCHANGED otherVars

\* transport.send_response: the reply is queued for the writer task; the
\* send fails, and is only logged, when the writer task is gone
TransportSendResponse(sent, resp) == IF writerAlive THEN Append(sent, resp) ELSE sent

\* AcpMessage::AgentRequest in message_loop: the delegate answers, the reply
\* is written back
DispatchAgentRequest ==
    /\ mode = "delegate"
    /\ HeadIs("req")
    /\ LET request == Head(stdout_rx).request IN
       /\ \E k \in HandlerOutcomes :
             sent_responses' = TransportSendResponse(sent_responses,
                                                     handle_agent_request(request, k))
       /\ handled' = handled \cup {request.id}
    /\ stdout_rx' = Tail(stdout_rx)
    /\ UNCHANGED <<mode, corrVars, writerAlive, emitted, updates, requests, stdoutClosed,
                   loop, notifVars, agent_request_tx, handlerAlive, handlerResp, curReq,
                   delivLog, outstandingAtClose>>
    /\ UNCHANGED otherVars

\* recv_line() returns None in message_loop: Disconnected is broadcast and the
\* loop ends. The waiter map is shared with the connection and stays as it is.
DispatchClosed ==
    /\ mode = "delegate"
    /\ HeadIs("eof")
    /\ notification_tx' = BroadcastSend(notification_tx, Disconnected)
    /\ loop' = "ended"
    /\ stdout_rx' = Tail(stdout_rx)
    /\ outstandingAtClose' = {r \in ReqIds : waiter[r] = "waiting"}
    /\ UNCHANGED <<mode, corrVars, writerAlive, emitted, updates, requests, stdoutClosed,
                   sub, update_tx, consumed, callVars, delivLog>>
    /\ UNCHANGED otherVars

(***************************************************************************)
(* Subscribers of the broadcast channel (subscribe_updates)                *)
(***************************************************************************)
\* values of the channel no longer retained
Evicted(log) == IF Len(log) > BroadcastCapacity THEN Len(log) - BroadcastCapacity ELSE 0

Subscribe(s) ==
    /\ ~sub[s].on
    /\ sub' = [sub EXCEPT ![s] = [on |-> TRUE, from |-> Len(notification_tx),
                                  pos |-> Len(notification_tx), rcv |-> <<>>,
                                  lagged |-> FALSE]]
    /\ UNCHANGED <<mode, corrVars, writerAlive, agentVars, loop, notification_tx,
                   update_tx, consumed, callVars, delivLog, outstandingAtClose>>
    /\ UNCHANGED otherVars

\* broadcast::Receiver::recv: the next value, or Lagged and a jump to the
\* oldest retained value
broadcast_recv(s) ==
    /\ sub[s].on
    /\ sub[s].pos < Len(notification_tx)
    /\ IF sub[s].pos < Evicted(notification_tx)
         THEN sub' = [sub EXCEPT ![s].lagged = TRUE, ![s].pos = Evicted(notification_tx)]
         ELSE sub' = [sub EXCEPT ![s].rcv = Append(@, notification_tx[sub[s].pos + 1]),
                                 ![s].pos = @ + 1]
    /\ UNCHANGED <<mode, corrVars, writerAlive, agentVars, loop, notification_tx,
                   update_tx, consumed, callVars, delivLog, outstandingAtClose>>

\* a subscriber that only keeps what it receives
SubscriberRecv(s) ==
    /\ broadcast_recv(s)
    /\ UNCHANGED otherVars

(***************************************************************************)
(* The legacy loop and the runtime tasks behind its channels               *)
(***************************************************************************)
\* AcpMessage::SessionUpdate in legacy_message_loop: update_tx.send(..).await
LegacyDispatchUpdate ==
    /\ mode = "legacy"
    /\ HeadIs("upd")
    /\ Len(update_tx) < ChannelBuffer
    /\ update_tx' = Append(update_tx, Update(Head(stdout_rx).id))
    /\ stdout_rx' = Tail(stdout_rx)
    /\ UNCHANGED <<mode, corrVars, writerAlive, emitted, updates, requests, stdoutClosed,
                   loop, notification_tx, sub, consumed, callVars, delivLog,
                   outstandingAtClose>>
    /\ UNCHANGED otherVars

\* spawn_runtime_tasks_*: session_update_rx.recv() and process_update
ConsumeUpdate ==
    /\ update_tx # <<>>
    /\ consumed' = Append(consumed, Head(update_tx))
    /\ update_tx' = Tail(update_tx)
    /\ UNCHANGED <<mode, corrVars, writerAlive, agentVars, loop, notification_tx, sub,
                   callVars, delivLog, outstandingAtClose>>
    /\ UNCHANGED otherVars

\* AcpMessage::AgentRequest in legacy_message_loop: hand (request, tx) to the
\* handler channel and await the oneshot; when the channel is closed the
\* loop warns and continues with the next line
LegacyDispatchAgentRequest ==
    /\ mode = "legacy"
    /\ HeadIs("req")
    /\ LET q == Head(stdout_rx).id IN
       IF handlerAlive
         THEN /\ agent_request_tx' = Append(agent_request_tx, Head(stdout_rx).request)
              /\ loop' = "await"
              /\ curReq' = q
              /\ handled' = handled
         ELSE /\ agent_request_tx' = agent_request_tx
              /\ loop' = loop
              /\ curReq' = curReq
              /\ handled' = handled \cup {q}
    /\ stdout_rx' = Tail(stdout_rx)
    /\ UNCHANGED <<mode, corrVars, writerAlive, emitted, updates, requests, stdoutClosed,
                   notifVars, handlerAlive, handlerResp, sent_responses, delivLog,
                   outstandingAtClose>>
    /\ UNCHANGED otherVars

\* spawn_agent_request_handler: take a request, answer it through its oneshot
HandlerAnswers ==
    /\ mode = "legacy"
    /\ handlerAlive
    /\ agent_request_tx # <<>>
    /\ \E k \in HandlerOutcomes :
          handlerResp' = spawn_agent_request_handler(Head(agent_request_tx), k)
    /\ agent_request_tx' = Tail(agent_request_tx)
    /\ UNCHANGED <<mode, corrVars, writerAlive, agentVars, loop, notifVars,
                   handlerAlive, curReq, sent_responses, handled, delivLog,
                   outstandingAtClose>>
    /\ UNCHANGED otherVars

\* the handler task ends or its receiver is dropped: agent_request_rx is
\* closed and the requests queued in it are dropped with their reply senders
HandlerChannelCloses ==
    /\ mode = "legacy"
    /\ handlerAlive
    /\ handlerAlive' = FALSE
    /\ agent_request_tx' = <<>>
    /\ UNCHANGED <<mode, corrVars, writerAlive, agentVars, loop, notifVars,
                   handlerResp, curReq, sent_responses, handled, delivLog,
                   outstandingAtClose>>
    /\ UNCHANGED otherVars

\* legacy_message_loop after rx.await: write the reply back, or, when the
\* reply sender was dropped, go on without one
LegacyResume ==
    /\ mode = "legacy"
    /\ loop = "await"
    /\ \/ /\ handlerResp # NoResp
          /\ sent_responses' = TransportSendResponse(sent_responses, handlerResp)
       \/ /\ handlerResp = NoResp
          /\ ~handlerAlive
          /\ sent_responses' = sent_responses
    /\ handled' = handled \cup {curReq}
    /\ handlerResp' = NoResp
    /\ curReq' = 0
    /\ loop' = "run"
    /\ UNCHANGED <<mode, corrVars, writerAlive, agentVars, notifVars, agent_request_tx,
                   handlerAlive, delivLog, outstandingAtClose>>
    /\ UNCHANGED otherVars

\* recv_line() returns None in legacy_message_loop: the loop ends
LegacyDispatchClosed ==
    /\ mode = "legacy"
    /\ HeadIs("eof")
    /\ loop' = "ended"
    /\ stdout_rx' = Tail(stdout_rx)
    /\ outstandingAtClose' = {r \in ReqIds : waiter[r] = "waiting"}
    /\ UNCHANGED <<mode, corrVars, writerAlive, emitted, updates, requests, stdoutClosed,
                   notifVars, callVars, delivLog>>
    /\ UNCHANGED otherVars

(***************************************************************************)
(* Session accumulator: Session::process_update folds session updates      *)
(* into the TaskState                                                      *)
(***************************************************************************)
TaskStatuses == {"pending", "planning", "executing", "progressing", "completed",
                 "cancelled", "error"}
StopReasons == {"end_turn", "max_tokens", "cancelled", "error"}
ToolCallStatuses == {"in_progress", "completed", "failed"}
ToolCallKinds == {"write", "execute"}
ChunkKinds == {"agent", "user", "thought"}
\* content blocks of message chunks and of tool call updates
Fragments == {"x", "y"}
PlanInputs == {<<"a">>, <<"a", "b">>}
NoValue == "none"
NoTool == [present |-> FALSE]
\* ToolCallUpdate.content = None
NoContent == <<NoValue>>
\* the rawInput an agent sends with a tool call: none, or an object with a path
ToolInputs == {NoValue, "p"}

\* a session update as it came from the agent
Folded(u, id, kind, st, content, raw_input) ==
    [u |-> u, id |-> id, kind |-> kind, status |-> st, content |-> content,
     raw_input |-> raw_input]

\* TaskStatus::is_terminal
is_terminal(st) == st \in {"completed", "cancelled", "error"}

\* TaskState::new
FoldInit ==
    /\ status = "pending"
    /\ stop_reason = NoValue
    /\ plan = <<>>
    /\ messages = <<>>
    /\ tool_calls = [t \in ToolIds |-> NoTool]
    /\ artifacts = <<>>
    /\ current_mode = NoValue
    /\ updated_at = 0
    /\ clock = 0
    /\ folded = <<>>

\* a faulty merge: every chunk becomes a message of its own
append_message_push(msgs, kind, content) ==
    Append(msgs, [kind |-> kind, content |-> content])

\* a faulty merge: a chunk of the tail's kind takes the place of its content
append_message_replace(msgs, kind, content) ==
    IF msgs # <<>> /\ msgs[Len(msgs)].kind = kind
      THEN [msgs EXCEPT ![Len(msgs)].content = content]
      ELSE Append(msgs, [kind |-> kind, content |-> content])

\* Session::append_message: extend the tail message when it is of the same
\* kind, push a new message otherwise
append_message(msgs, kind, content) ==
    IF msgs # <<>> /\ msgs[Len(msgs)].kind = kind
      THEN [msgs EXCEPT ![Len(msgs)].content = @ \o content]
      ELSE Append(msgs, [kind |-> kind, content |-> content])

\* Session::extract_artifacts_from_tool_call: by the tool call's kind, from
\* its input (write) or its output (execute)
extract_artifacts_from_tool_call(arts, id, tc) ==
    IF tc.kind = "write" /\ tc.input # NoValue
      THEN Append(arts, [type |-> "file_created", path |-> tc.input, tool |-> id])
    ELSE IF tc.kind = "execute" /\ tc.output # NoValue
      THEN Append(arts, [type |-> "terminal_output", stdout |-> tc.output, tool |-> id])
    ELSE arts

\* every fold first stamps updated_at
Stamp ==
    /\ clock < MaxFolds
    /\ clock' = clock + 1
    /\ updated_at' = clock + 1

\* the connection is not involved in a fold
FoldOnly == UNCHANGED <<connVars, sandVars, termVars, sessVars, lineVars, lifeVars, watchVars, hostVars>>

\* SessionUpdate::Plan
FoldPlan ==
    /\ Stamp
    /\ \E plan_entries \in PlanInputs : plan' = plan_entries
    /\ folded' = Append(folded, Folded("plan", 0, NoValue, NoValue, NoContent, NoValue))
    /\ status' = IF status = "pending" THEN "planning" ELSE status
    /\ UNCHANGED <<stop_reason, messages, tool_calls, artifacts, current_mode>>
    /\ FoldOnly

\* SessionUpdate::AgentMessageChunk, UserMessageChunk, Thought
FoldChunk ==
    /\ Stamp
    /\ \E kind \in ChunkKinds, c \in Fragments :
          /\ messages' = append_message(messages, kind, <<c>>)
          /\ folded' = Append(folded, Folded("chunk", 0, kind, NoValue, <<c>>, NoValue))
    /\ UNCHANGED <<status, stop_reason, plan, tool_calls, artifacts, current_mode>>
    /\ FoldOnly

\* SessionUpdate::ToolCall: a fresh record is inserted under the id. The
\* variant has the fields tool_call_id, title, kind and status: a rawInput in
\* the agent's message is not deserialized, and input starts as None.
FoldToolCall ==
    /\ Stamp
    /\ \E id \in ToolIds, kind \in ToolCallKinds, st \in ToolCallStatuses,
          raw_input \in ToolInputs :
          /\ tool_calls' = [tool_calls EXCEPT ![id] =
                               [present |-> TRUE, kind |-> kind, status |-> st,
                                content |-> <<>>, input |-> NoValue, output |-> NoValue,
                                started_at |-> clock + 1, completed_at |-> 0]]
          /\ folded' = Append(folded, Folded("tool_call", id, kind, st, NoContent,
                                             raw_input))
    /\ status' = "executing"
    /\ UNCHANGED <<stop_reason, plan, messages, artifacts, current_mode>>
    /\ FoldOnly

\* SessionUpdate::ToolCallUpdate: status and content of a known tool call,
\* completed_at and the artifacts when it completes
FoldToolCallUpdate ==
    /\ Stamp
    /\ \E id \in ToolIds, st \in ToolCallStatuses,
          content \in {NoContent} \cup {<<c>> : c \in Fragments} :
          /\ folded' = Append(folded, Folded("tool_call_update", id, NoValue, st, content,
                                             NoValue))
          /\ IF tool_calls[id].present
               THEN LET tc == [tool_calls[id] EXCEPT
                                  !.status = st,
                                  !.content = IF content # NoContent THEN content ELSE @,
                                  !.completed_at = IF st = "completed" THEN clock + 1
                                                   ELSE @]
                    IN /\ tool_calls' = [tool_calls EXCEPT ![id] = tc]
                       /\ artifacts' =
                             IF st = "completed"
                               THEN extract_artifacts_from_tool_call(artifacts, id, tc)
                               ELSE artifacts
               ELSE UNCHANGED <<tool_calls, artifacts>>
    /\ UNCHANGED <<status, stop_reason, plan, messages, current_mode>>
    /\ FoldOnly

\* SessionUpdate::CurrentModeUpdate
FoldCurrentMode ==
    /\ Stamp
    /\ current_mode' = "code"
    /\ folded' = Append(folded, Folded("current_mode_update", 0, NoValue, NoValue,
                                       NoContent, NoValue))
    /\ UNCHANGED <<status, stop_reason, plan, messages, tool_calls, artifacts>>
    /\ FoldOnly

\* SessionUpdate::AvailableCommandsUpdate: nothing is stored
FoldAvailableCommands ==
    /\ Stamp
    /\ folded' = Append(folded, Folded("available_commands_update", 0, NoValue, NoValue,
                                       NoContent, NoValue))
    /\ UNCHANGED <<status, stop_reason, plan, messages, tool_calls, artifacts,
                   current_mode>>
    /\ FoldOnly

\* the status a stop reason maps to in process_update
StatusOfStopReason(reason) ==
    CASE reason = "end_turn" -> "completed"
      [] reason = "error" -> "error"
      [] reason = "cancelled" -> "cancelled"
      [] reason = "max_tokens" -> "progressing"

\* SessionUpdate::PromptResponseReceived
FoldPromptResponseReceived ==
    /\ Stamp
    /\ \E reason \in StopReasons \cup {NoValue} :
          /\ folded' = Append(folded, Folded("prompt_response_received", 0, NoValue,
                                             reason, NoContent, NoValue))
          /\ IF reason # NoValue
               THEN /\ stop_reason' = reason
                    /\ status' = StatusOfStopReason(reason)
               ELSE UNCHANGED <<stop_reason, status>>
    /\ UNCHANGED <<plan, messages, tool_calls, artifacts, current_mode>>
    /\ FoldOnly

\* a faulty mapping: whatever the stop reason, the task is completed
StatusCompletedAlways(reason) == "completed"

\* the status a stop reason maps to in handle_prompt_response
StatusOfPromptResponse(reason) ==
    CASE reason = "end_turn" -> "completed"
      [] reason = "cancelled" -> "cancelled"
      [] reason = "error" -> "error"
      [] reason = "max_tokens" -> "completed"

\* Session::handle_prompt_response: the final response of an awaited prompt
handle_prompt_response ==
    /\ clock < MaxFolds
    /\ \E reason \in StopReasons :
          /\ stop_reason' = reason
          /\ status' = StatusOfPromptResponse(reason)
    /\ clock' = clock + 1
    /\ updated_at' = clock + 1
    /\ UNCHANGED <<plan, messages, tool_calls, artifacts, current_mode, folded>>
    /\ FoldOnly

(***************************************************************************)
(* Sandbox: paths and the file system under them                           *)
(***************************************************************************)
\* A path is the sequence of its components below the root; ".." is the
\* parent directory. The names: the workspace directory w, a symbolic link
\* l, a file f.
Up == ".."
Names == {"w", "l", "f"}
Components == Names \cup {Up}
PathsUpTo(n) == UNION {[1..k -> Components] : k \in 0..n}
Paths == PathsUpTo(MaxPathLen)
\* the directories the user grants
GrantPaths == {<<"w">>, <<"w", "w">>}
Contents == {"b"}

Dir == [kind |-> "dir", data |-> "", target |-> <<>>]
File(c) == [kind |-> "file", data |-> c, target |-> <<>>]
Link(t) == [kind |-> "link", data |-> "", target |-> t]

\* the workspace /w with a file and a link that leads out of it, to the
\* root, and a file /f outside the workspace
InitialFs ==
    (<<>> :> Dir) @@ (<<"w">> :> Dir) @@ (<<"w", "f">> :> File("a")) @@
    (<<"w", "l">> :> Link(<<>>)) @@ (<<"f">> :> File("s"))

\* errno of a failed path lookup
ENOENT == <<"!", "ENOENT">>
ENOTDIR == <<"!", "ENOTDIR">>
ELOOP == <<"!", "ELOOP">>
IsErr(loc) == loc \in {ENOENT, ENOTDIR, ELOOP}

Front(p) == SubSeq(p, 1, Len(p) - 1)
Last(p) == p[Len(p)]
Reverse(p) == [i \in 1..Len(p) |-> p[Len(p) + 1 - i]]

IsDirAt(f, loc) == loc \in DOMAIN f /\ f[loc].kind = "dir"
IsFileAt(f, loc) == loc \in DOMAIN f /\ f[loc].kind = "file"
IsLinkAt(f, loc) == loc \in DOMAIN f /\ f[loc].kind = "link"

\* Path::starts_with: a prefix by components
starts_with(p, g) == Len(g) <= Len(p) /\ SubSeq(p, 1, Len(g)) = g

\* The operating system's path lookup from the directory cur: ".." is the
\* parent of the directory reached, a link is replaced by its target; a link
\* in the last place is followed when follow is set.
RECURSIVE Walk(_, _, _, _, _)
Walk(f, cur, rest, follow, hops) ==
    IF rest = <<>> THEN cur
    ELSE IF ~IsDirAt(f, cur) THEN ENOTDIR
    ELSE IF Head(rest) = Up
      THEN Walk(f, IF cur = <<>> THEN cur ELSE Front(cur), Tail(rest), follow, hops)
    ELSE LET nxt == Append(cur, Head(rest)) IN
         IF nxt \notin DOMAIN f THEN ENOENT
         ELSE IF f[nxt].kind = "link" /\ (Tail(rest) # <<>> \/ follow)
           THEN IF hops = 0 THEN ELOOP
                ELSE Walk(f, <<>>, f[nxt].target \o Tail(rest), follow, hops - 1)
         ELSE Walk(f, nxt, Tail(rest), follow, hops)

\* fs::canonicalize / fs::metadata: the real location of the path
Resolve(f, p) == Walk(f, <<>>, p, TRUE, MaxLinkHops)
\* lstat: the location of what the path names, a final link not followed
LResolve(f, p) == Walk(f, <<>>, p, FALSE, MaxLinkHops)
\* Path::exists, Path::is_dir
exists(f, p) == ~IsErr(Resolve(f, p))
is_dir(f, p) == IsDirAt(f, Resolve(f, p))

\* where the directory entry that the path names is, or would be created
EntryLoc(f, p) ==
    IF p = <<>> THEN <<>>
    ELSE LET par == Resolve(f, Front(p)) IN
         IF IsErr(par) THEN par
         ELSE IF ~IsDirAt(f, par) THEN ENOTDIR
         ELSE IF Last(p) = Up THEN (IF par = <<>> THEN par ELSE Front(par))
         ELSE Append(par, Last(p))

(***************************************************************************)
(* Sandbox: the permission ledger (PermissionManager)                      *)
(***************************************************************************)
SecurityLevels == {"strict", "auto_accept_edits", "trust"}
\* SecurityLevel::default
default_security_level == "auto_accept_edits"

\* PermissionManager::clean_path: drop the component before each ".."
RECURSIVE clean_path_from(_, _)
clean_path_from(components, rest) ==
    IF rest = <<>> THEN components
    ELSE IF Head(rest) = Up
      THEN clean_path_from(IF components = <<>> THEN components ELSE Front(components),
                           Tail(rest))
    ELSE clean_path_from(Append(components, Head(rest)), Tail(rest))

clean_path(p) == clean_path_from(<<>>, p)

\* normalize_path, the loop over a path that does not exist: go up to the
\* nearest path that exists and keep the names passed on the way;
\* Path::file_name is None for "..", which is therefore not kept
RECURSIVE Climb(_, _, _)
Climb(f, current, remaining) ==
    IF ~exists(f, current) /\ current # <<>>
      THEN Climb(f, Front(current),
                 IF Last(current) # Up THEN Append(remaining, Last(current))
                 ELSE remaining)
      ELSE <<current, remaining>>

\* PermissionManager::normalize_path
normalize_path(f, p) ==
    IF exists(f, p) THEN Resolve(f, p)
    ELSE LET up == Climb(f, p, <<>>)
             base == IF exists(f, up[1]) THEN Resolve(f, up[1]) ELSE up[1]
         IN clean_path(base \o Reverse(up[2]))

\* a faulty comparison: the granted path is a prefix of the path as a string
is_path_granted_by_string(granted, path) ==
    LET Chars(name) == IF name = "ww" THEN <<"/", "w", "w">> ELSE <<"/", name>>
        Str[p \in Seq(Components \cup {"ww"})] ==
            IF p = <<>> THEN <<>> ELSE Chars(Head(p)) \o Str[Tail(p)]
    IN \E g \in granted :
          /\ Len(Str[g]) <= Len(Str[path])
          /\ SubSeq(Str[path], 1, Len(Str[g])) = Str[g]

\* PermissionManager::is_path_granted
is_path_granted(granted, path) == \E g \in granted : starts_with(path, g)

\* PermissionManager::validate_access
validate_access(granted, f, p) == is_path_granted(granted, normalize_path(f, p))

\* the entries whose path is an ancestor of the normalized path
Covering(ents, f, p) ==
    LET path == normalize_path(f, p) IN
    {i \in DOMAIN ents : starts_with(path, ents[i].path)}

\* PermissionManager::get_security_level: the level of the first entry that
\* covers the path, the default level when none does
get_security_level(ents, f, p) ==
    LET covering == Covering(ents, f, p) IN
    IF covering # {}
      THEN ents[CHOOSE i \in covering : \A j \in covering : i <= j].security_level
      ELSE default_security_level

\* a faulty gate: nothing requires confirmation
requires_confirmation_never(ents, f, p, operation) == FALSE

\* PermissionManager::requires_confirmation
requires_confirmation(ents, f, p, operation) ==
    LET security == get_security_level(ents, f, p) IN
    CASE security = "trust" -> FALSE
      [] security = "auto_accept_edits" -> operation \in {"delete", "execute"}
      [] security = "strict" -> operation \notin {"read", "list"}

\* PermissionManager::new, and the file system the host starts on
SandboxInit ==
    /\ granted_paths = {}
    /\ entries = <<>>
    /\ regranted = {}
    /\ fs = InitialFs
    /\ lastCall = [op |-> "none", covering |-> {}, code |-> 0, msg |-> <<>>,
                   read |-> ENOENT]
    /\ ledgerOps = 0
    /\ fsOps = 0
    /\ ledgerLog = <<>>
    /\ lastCheck = [path |-> <<>>, result |-> FALSE]
    /\ checkOps = 0

\* the connection and the accumulator are not involved in the sandbox
SandboxOnly == UNCHANGED <<connVars, foldVars, sessVars, lineVars, lifeVars, watchVars, hostVars>>

\* PermissionManager::grant_access: a new entry, or a new level for the
\* entry already granted under the normalized path
grant_access ==
    /\ ledgerOps < MaxLedgerOps
    /\ ledgerOps' = ledgerOps + 1
    /\ \E p \in GrantPaths, security_level \in SecurityLevels :
          LET path == normalize_path(fs, p) IN
          /\ ledgerLog' = Append(ledgerLog, [op |-> "grant", path |-> path])
          /\ IF path \in granted_paths
               THEN /\ entries' = [i \in DOMAIN entries |->
                                     IF entries[i].path = path
                                       THEN [entries[i] EXCEPT
                                               !.security_level = security_level]
                                       ELSE entries[i]]
                    /\ regranted' = regranted \cup {path}
                    /\ UNCHANGED granted_paths
               ELSE /\ granted_paths' = granted_paths \cup {path}
                    /\ entries' = Append(entries, [path |-> path,
                                                   security_level |-> security_level])
                    /\ UNCHANGED regranted
    /\ UNCHANGED <<fs, lastCall, fsOps, lastCheck, checkOps, termVars>>
    /\ SandboxOnly

\* PermissionManager::revoke_access
revoke_access ==
    /\ ledgerOps < MaxLedgerOps
    /\ ledgerOps' = ledgerOps + 1
    /\ \E p \in GrantPaths :
          LET path == normalize_path(fs, p) IN
          /\ ledgerLog' = Append(ledgerLog, [op |-> "revoke", path |-> path])
          /\ IF path \in granted_paths
               THEN /\ granted_paths' = granted_paths \ {path}
                    /\ entries' = SelectSeq(entries, LAMBDA e : e.path # path)
               ELSE UNCHANGED <<granted_paths, entries>>
    /\ UNCHANGED <<regranted, fs, lastCall, fsOps, lastCheck, checkOps, termVars>>
    /\ SandboxOnly

\* the paths check_access is asked about; ww is a name that begins like w
CheckPaths == PathsUpTo(MaxPathLen - 2) \cup {<<"ww">>, <<"ww", "f">>}

\* PermissionManager::check_access
check_access ==
    /\ checkOps < MaxChecks
    /\ checkOps' = checkOps + 1
    /\ \E p \in CheckPaths :
          lastCheck' = [path |-> p,
                        result |-> is_path_granted(granted_paths, normalize_path(fs, p))]
    /\ UNCHANGED <<granted_paths, entries, regranted, fs, lastCall, ledgerOps, fsOps,
                   ledgerLog, termVars>>
    /\ SandboxOnly

(***************************************************************************)
(* Sandbox: file operations (FileSystemHandler) on the path as given       *)
(***************************************************************************)
\* the outcome of an operation: the file system it leaves, and its error
Done(f) == [fs |-> f, err |-> "ok"]
Failed(f, e) == [fs |-> f, err |-> e]
LookupError(loc) == IF loc = ENOENT THEN "not_found" ELSE "io"

\* what lies below a directory
Under(f, d) == {loc \in DOMAIN f : starts_with(loc, d) /\ loc # d}
Without(f, locs) == [loc \in DOMAIN f \ locs |-> f[loc]]

\* mkdir(2) under DirBuilder
mkdir(f, p) ==
    LET loc == EntryLoc(f, p) IN
    IF IsErr(loc) THEN Failed(f, LookupError(loc))
    ELSE IF p = <<>> \/ Last(p) = Up \/ loc \in DOMAIN f THEN Failed(f, "exists")
    ELSE Done(f @@ (loc :> Dir))

\* fs::create_dir_all: mkdir; when a parent is missing, the parents first
RECURSIVE create_dir_all(_, _)
create_dir_all(f, p) ==
    LET first == mkdir(f, p) IN
    IF first.err = "ok" THEN first
    ELSE IF first.err # "not_found"
      THEN (IF is_dir(f, p) THEN Done(f) ELSE Failed(f, "io"))
    ELSE IF p = <<>> THEN Failed(f, "io")
    ELSE LET up == create_dir_all(f, Front(p)) IN
         IF up.err # "ok" THEN up
         ELSE LET second == mkdir(up.fs, p) IN
              IF second.err = "ok" THEN second
              ELSE IF is_dir(up.fs, p) THEN Done(up.fs)
              ELSE Failed(up.fs, "io")

\* fs::write: create or truncate the file the path names, through a link
fs_write(f, p, c) ==
    LET loc == EntryLoc(f, p) IN
    IF IsErr(loc) THEN Failed(f, LookupError(loc))
    ELSE IF p = <<>> \/ Last(p) = Up THEN Failed(f, "io")
    ELSE IF loc \notin DOMAIN f THEN Done(f @@ (loc :> File(c)))
    ELSE IF f[loc].kind = "file" THEN Done([f EXCEPT ![loc] = File(c)])
    ELSE IF f[loc].kind = "link"
      THEN LET t == Resolve(f, p)
               made == EntryLoc(f, f[loc].target)
           IN IF IsFileAt(f, t) THEN Done([f EXCEPT ![t] = File(c)])
              ELSE IF t = ENOENT /\ ~IsErr(made) /\ made \notin DOMAIN f
                THEN Done(f @@ (made :> File(c)))
              ELSE Failed(f, "io")
    ELSE Failed(f, "io")

\* the parent directories of the path are created when they do not exist
with_parents(f, p) ==
    IF p # <<>> /\ ~exists(f, Front(p)) THEN create_dir_all(f, Front(p)) ELSE Done(f)

\* FileSystemHandler::write_file, after validate_access
write_file(f, p, c) ==
    LET made == with_parents(f, p) IN
    IF made.err # "ok" THEN Failed(made.fs, "io") ELSE fs_write(made.fs, p, c)

\* fs::remove_dir_all: a link is unlinked, a directory emptied and removed
remove_dir_all(f, p) ==
    LET loc == LResolve(f, p) IN
    IF IsErr(loc) THEN Failed(f, "io")
    ELSE IF f[loc].kind = "link" THEN Done(Without(f, {loc}))
    ELSE IF loc = <<>> \/ Last(p) = Up THEN Failed(Without(f, Under(f, loc)), "io")
    ELSE Done(Without(f, Under(f, loc) \cup {loc}))

\* fs::remove_file: unlink
remove_file(f, p) ==
    LET loc == LResolve(f, p) IN
    IF IsErr(loc) \/ IsDirAt(f, loc) THEN Failed(f, "io") ELSE Done(Without(f, {loc}))

\* FileSystemHandler::delete_file, after validate_access
delete_file(f, p) ==
    IF ~exists(f, p) THEN Failed(f, "not_found")
    ELSE IF is_dir(f, p) THEN remove_dir_all(f, p)
    ELSE remove_file(f, p)

\* the file system with the tree at src moved to dst
Moved(f, src, dst) ==
    LET stay == {loc \in DOMAIN f : ~starts_with(loc, src) /\ ~starts_with(loc, dst)}
        from == {loc \in DOMAIN f : starts_with(loc, src)}
        to == {dst \o SubSeq(loc, Len(src) + 1, Len(loc)) : loc \in from}
    IN [loc \in stay \cup to |->
          IF loc \in to THEN f[src \o SubSeq(loc, Len(dst) + 1, Len(loc))] ELSE f[loc]]

\* fs::rename: rename(2)
rename(f, from, to) ==
    LET src == LResolve(f, from)
        dst == EntryLoc(f, to)
    IN IF IsErr(src) \/ IsErr(dst) THEN Failed(f, "io")
       ELSE IF from = <<>> \/ to = <<>> THEN Failed(f, "io")
       ELSE IF Last(from) = Up \/ Last(to) = Up THEN Failed(f, "io")
       ELSE IF src = dst THEN Done(f)
       ELSE IF starts_with(dst, src) \/ starts_with(src, dst) THEN Failed(f, "io")
       ELSE IF dst \in DOMAIN f
               /\ \/ IsDirAt(f, src) # IsDirAt(f, dst)
                  \/ Under(f, dst) # {}
         THEN Failed(f, "io")
       ELSE Done(Moved(f, src, dst))

\* FileSystemHandler::move_file, after validate_access of both paths
move_file(f, from, to) ==
    IF ~exists(f, from) THEN Failed(f, "not_found")
    ELSE LET made == with_parents(f, to) IN
         IF made.err # "ok" THEN Failed(made.fs, "io") ELSE rename(made.fs, from, to)

\* FileSystemHandler::create_directory, after validate_access
create_directory(f, p) ==
    LET made == create_dir_all(f, p) IN
    IF made.err # "ok" THEN Failed(made.fs, "io") ELSE made

(***************************************************************************)
(* Sandbox: the agent's fs/* requests, answered by the delegate            *)
(* (AgentClientDelegate) or by the legacy handler task (runtime.rs)        *)
(***************************************************************************)
InternalError == -32603

OperationName(op) ==
    CASE op = "write" -> "Write"
      [] op = "delete" -> "Delete"
      [] op = "move" -> "Move"
      [] op = "mkdir" -> "Create directory"
      [] OTHER -> "Read"

\* The message of the error reply, as the words it is made of (the path that
\* ends some of them is left out): Error and SandboxError as they display,
\* and the texts of the two handlers.
MessageOf(op, err) ==
    CASE err = "ok" -> <<>>
      [] err = "confirm" ->
            IF mode = "delegate"
              THEN <<"Sandbox error:", "Access denied:", OperationName(op),
                     "requires confirmation", "for:">>
              ELSE <<OperationName(op), "requires confirmation",
                     "under current security policy">>
      [] err = "not_granted" -> <<"Sandbox error:", "Path not granted:">>
      [] err = "not_found" ->
            IF op = "list" THEN <<"Sandbox error:", "Directory not found:">>
            ELSE <<"Sandbox error:", "File not found:">>
      [] err = "invalid" -> <<"Sandbox error:", "Invalid path:", "is not a directory">>
      [] OTHER -> <<"IO error:">>

\* the levels of the entries that cover the path
CoveringLevels(p) == {entries[i].security_level : i \in Covering(entries, fs, p)}

\* the reply to the request: a result, or create_error_response(-32603, ..)
Answer(op, p, err, read) ==
    lastCall' = [op |-> op, covering |-> CoveringLevels(p),
                 code |-> IF err = "ok" THEN 0 ELSE InternalError,
                 msg |-> MessageOf(op, err), read |-> read]

\* an fs/* request is the step of one handler
FsRequest ==
    /\ fsOps < MaxFsOps
    /\ fsOps' = fsOps + 1
    /\ UNCHANGED <<granted_paths, entries, regranted, ledgerOps, ledgerLog, lastCheck,
                   checkOps, termVars>>
    /\ SandboxOnly

\* fs/read_text_file
FsReadTextFile ==
    /\ FsRequest
    /\ \E p \in Paths :
          LET loc == Resolve(fs, p) IN
          IF ~validate_access(granted_paths, fs, p)
            THEN Answer("read", p, "not_granted", ENOENT)
          ELSE IF IsErr(loc) THEN Answer("read", p, LookupError(loc), ENOENT)
          ELSE IF ~IsFileAt(fs, loc) THEN Answer("read", p, "io", ENOENT)
          ELSE Answer("read", p, "ok", loc)
    /\ UNCHANGED fs

\* fs/list_directory
FsListDirectory ==
    /\ FsRequest
    /\ \E p \in Paths :
          IF ~validate_access(granted_paths, fs, p)
            THEN Answer("list", p, "not_granted", ENOENT)
          ELSE IF ~exists(fs, p) THEN Answer("list", p, "not_found", ENOENT)
          ELSE IF ~is_dir(fs, p) THEN Answer("list", p, "invalid", ENOENT)
          ELSE Answer("list", p, "ok", Resolve(fs, p))
    /\ UNCHANGED fs

\* a request that changes the file system: the confirmation gate, the
\* permission check, the operation
Mutation(op, gated, granted, p, outcome) ==
    IF gated THEN Answer(op, p, "confirm", ENOENT) /\ UNCHANGED fs
    ELSE IF ~granted THEN Answer(op, p, "not_granted", ENOENT) /\ UNCHANGED fs
    ELSE Answer(op, p, outcome.err, ENOENT) /\ fs' = outcome.fs

\* fs/write_file, fs/write_text_file
FsWriteTextFile ==
    /\ FsRequest
    /\ \E p \in Paths, c \in Contents :
          Mutation("write", requires_confirmation(entries, fs, p, "write"),
                   validate_access(granted_paths, fs, p), p, write_file(fs, p, c))

\* fs/delete_file
FsDeleteFile ==
    /\ FsRequest
    /\ \E p \in Paths :
          Mutation("delete", requires_confirmation(entries, fs, p, "delete"),
                   validate_access(granted_paths, fs, p), p, delete_file(fs, p))

\* fs/move_file
FsMoveFile ==
    /\ FsRequest
    /\ \E old_path \in PathsUpTo(MaxPathLen - 3), new_path \in PathsUpTo(MaxPathLen - 2) :
          Mutation("move",
                   \/ requires_confirmation(entries, fs, old_path, "move")
                   \/ requires_confirmation(entries, fs, new_path, "move"),
                   /\ validate_access(granted_paths, fs, old_path)
                   /\ validate_access(granted_paths, fs, new_path),
                   old_path, move_file(fs, old_path, new_path))

\* fs/create_directory
FsCreateDirectory ==
    /\ FsRequest
    /\ \E p \in Paths :
          Mutation("mkdir", requires_confirmation(entries, fs, p, "write"),
                   validate_access(granted_paths, fs, p), p, create_directory(fs, p))

(***************************************************************************)
(* Terminal: TerminalHandler::execute under the TerminalPolicy             *)
(***************************************************************************)
\* A string is the sequence of its characters. The executable is written
\* with "l" and "s" (as in ls and sudo) and the separator "/", an argument
\* is "-" or "s".
StringsOver(chars, n) == UNION {[1..k -> chars] : k \in 1..n}
Commands == StringsOver({"/", "l", "s"}, MaxCmdLen)
ArgStrings == {<<"-">>, <<"s">>}
ArgLists == UNION {[1..k -> ArgStrings] : k \in 0..MaxArgs}
NoCwd == <<"!", "none">>
CwdInputs == {NoCwd, <<"w">>, <<>>, <<"w", "l">>}

\* the policies: the terminal on or off, a whitelist or none, a blocked
\* pattern or none
Policies ==
    [enabled : BOOLEAN,
     allowed_commands : {{}, {<<"l">>}},
     blocked_patterns : {{}, {<<"s">>}}]

\* the path without the separators that end it
RECURSIVE StripSeparators(_)
StripSeparators(str) ==
    IF str # <<>> /\ Last(str) = "/" THEN StripSeparators(Front(str)) ELSE str

\* the characters after the last separator
RECURSIVE AfterLastSeparator(_)
AfterLastSeparator(str) ==
    IF str = <<>> \/ Last(str) = "/" THEN <<>>
    ELSE Append(AfterLastSeparator(Front(str)), Last(str))

\* Path::new(command).file_name().unwrap_or(command): the last component,
\* the command itself when the path has none
cmd_name(command) ==
    IF StripSeparators(command) = <<>> THEN command
    ELSE AfterLastSeparator(StripSeparators(command))

\* args.join(" ")
RECURSIVE join(_)
join(args) ==
    IF args = <<>> THEN <<>>
    ELSE IF Len(args) = 1 THEN args[1]
    ELSE args[1] \o <<" ">> \o join(Tail(args))

\* full_cmd: the name of the executable and the arguments, by spaces
full_cmd(command, args) ==
    IF args = <<>> THEN cmd_name(command)
    ELSE cmd_name(command) \o <<" ">> \o join(args)

\* str::contains
contains(str, pat) ==
    \E i \in 0..(Len(str) - Len(pat)) : SubSeq(str, i + 1, i + Len(pat)) = pat

\* the checks of TerminalHandler::execute, in their order
Admission(pol, command, args) ==
    IF ~pol.enabled THEN "disabled"
    ELSE IF pol.allowed_commands # {} /\ cmd_name(command) \notin pol.allowed_commands
      THEN "not_allowed"
    ELSE IF \E pat \in pol.blocked_patterns : contains(full_cmd(command, args), pat)
      THEN "blocked"
    ELSE "admitted"

TerminalInit ==
    /\ policy \in Policies
    /\ lastExec = [command |-> <<>>, args |-> <<>>, cwd |-> NoCwd, outcome |-> "none",
                   ran_in |-> NoCwd, inside |-> FALSE, confirmation |-> FALSE]
    /\ execOps = 0

\* the directories the host process may have been started in
HostCwds == {<<>>, <<"w">>}

\* Command::current_dir(dir) when a cwd is given, the working directory of
\* the host process when none is: where the child runs
working_directory(f, cwd, host_cwd) == IF cwd = NoCwd THEN host_cwd ELSE Resolve(f, cwd)

\* terminal/execute: execute_command validates the cwd when one is given,
\* TerminalHandler::execute checks the policy and spawns the command, which
\* the operating system may fail to start, and does fail to start in a cwd
\* that is no directory
TerminalExecute ==
    /\ execOps < MaxExecs
    /\ execOps' = execOps + 1
    /\ \E command \in Commands, args \in ArgLists, cwd \in CwdInputs, host_cwd \in HostCwds :
          LET verdict == IF cwd # NoCwd /\ ~validate_access(granted_paths, fs, cwd)
                           THEN "not_granted"
                           ELSE Admission(policy, command, args)
              dir == working_directory(fs, cwd, host_cwd)
          IN \E started \in BOOLEAN :
                LET outcome == IF verdict # "admitted" THEN verdict
                               ELSE IF started /\ IsDirAt(fs, dir) THEN "spawned"
                               ELSE "spawn_failed"
                IN lastExec' = [command |-> command, args |-> args, cwd |-> cwd,
                                outcome |-> outcome,
                                ran_in |-> IF outcome = "spawned" THEN dir ELSE NoCwd,
                                inside |-> outcome = "spawned"
                                           /\ is_path_granted(granted_paths, dir),
                                confirmation |->
                                    requires_confirmation(entries, fs, dir, "execute")]
    /\ UNCHANGED <<policy, sandVars, connVars, foldVars, sessVars, lineVars, lifeVars, watchVars, hostVars>>

(***************************************************************************)
(* A prompt from end to end: AcpConnection::prompt and cancel on a legacy  *)
(* connection, whose session updates the runtime task folds into the       *)
(* session (spawn_runtime_tasks_*, SessionManager::process_update)         *)
(***************************************************************************)
\* In this part the first request of the connection is the session/prompt
\* and the second the session/cancel; the agent's n-th message, when it is an
\* agent_message_chunk, has the text n.
PromptId == 1
CancelId == 2

\* the agent has written its final response to the prompt
PromptAnswered ==
    \/ \E i \in DOMAIN stdout_rx :
          stdout_rx[i].t = "resp" /\ stdout_rx[i].id = PromptId /\ stdout_rx[i].stop # NoValue
    \/ \E i \in DOMAIN delivLog :
          delivLog[i].id = PromptId /\ delivLog[i].stop # NoValue

\* AcpConnection::prompt: the session/prompt request is sent and awaited
Prompt ==
    /\ request_id = PromptId
    /\ SendRequest

\* AcpConnection::cancel, once the prompt has begun to stream: the
\* session/cancel request is sent and awaited
Cancel ==
    /\ request_id = CancelId
    /\ updates # <<>>
    /\ ~PromptAnswered
    /\ SendRequest

\* the agent streams an agent_message_chunk of the prompt it works on
AgentStreams ==
    /\ request_id > PromptId
    /\ ~PromptAnswered
    /\ AgentUpdates

\* the agent ends the turn: the response to session/prompt with its stop
\* reason; cancelled only when the prompt was cancelled
AgentAnswersPrompt ==
    /\ ~stdoutClosed /\ emitted < MaxMsgs
    /\ request_id > PromptId
    /\ ~PromptAnswered
    /\ \E reason \in StopReasons :
          /\ reason = "cancelled" => request_id > CancelId
          /\ stdout_rx' = Append(stdout_rx, [t |-> "resp", id |-> PromptId,
                                            stop |-> reason, error |-> NoError,
                                            result |-> NoResult])
    /\ emitted' = emitted + 1
    /\ UNCHANGED <<updates, requests, stdoutClosed>>
    /\ AgentUnchanged

\* the runtime task: session_update_rx.recv(), then
\* SessionManager::process_update and Session::process_update of the chunk
RuntimeProcessUpdate ==
    /\ update_tx # <<>>
    /\ consumed' = Append(consumed, Head(update_tx))
    /\ update_tx' = Tail(update_tx)
    /\ Stamp
    /\ LET content == <<Head(update_tx).id>> IN
       /\ messages' = append_message(messages, "agent", content)
       /\ folded' = Append(folded, Folded("chunk", 0, "agent", NoValue, content, NoValue))
    /\ UNCHANGED <<status, stop_reason, plan, tool_calls, artifacts, current_mode>>
    /\ UNCHANGED <<mode, corrVars, writerAlive, agentVars, loop, notification_tx, sub,
                   callVars, delivLog, outstandingAtClose>>
    /\ UNCHANGED <<sandVars, termVars, sessVars, lineVars, lifeVars, watchVars, hostVars>>

\* AcpConnection::prompt returns the PromptResult of the response it was
\* handed, and the caller passes it to Session::handle_prompt_response
PromptReturns ==
    /\ waiter[PromptId] = "response"
    /\ stop_reason = NoValue
    /\ clock < MaxFolds
    /\ \E i \in DOMAIN delivLog :
          /\ delivLog[i].to = PromptId
          /\ delivLog[i].stop # NoValue
          /\ stop_reason' = delivLog[i].stop
          /\ status' = StatusOfPromptResponse(delivLog[i].stop)
    /\ clock' = clock + 1
    /\ updated_at' = clock + 1
    /\ UNCHANGED <<plan, messages, tool_calls, artifacts, current_mode, folded>>
    /\ FoldOnly

(***************************************************************************)
(* Session operations (impl AgentConnection for AcpConnection): each sends *)
(* its request, awaits the response and parses it into what it returns     *)
(***************************************************************************)
Operations == {"initialize", "new_session", "load_session", "prompt", "cancel",
               "set_mode", "set_model", "set_config", "list_sessions"}

\* the JSON-RPC errors the agent answers with
AgentErrors == {[code |-> -32000, message |-> "busy"],
                [code |-> -32602, message |-> "bad"]}

\* an initialize result: the standard capabilities field, Gemini's
\* agentCapabilities field, each absent or with loadSession false or true
CapsShapes == {NoCaps, Caps(FALSE), Caps(TRUE)}
InitializeResults == [capabilities : CapsShapes, agent_capabilities : CapsShapes]

\* InitializeResult::get_capabilities: the standard field when it is there,
\* else Gemini's, else the default
get_capabilities(result) ==
    IF result.capabilities.present THEN result.capabilities
    ELSE IF result.agent_capabilities.present
      THEN Caps(result.agent_capabilities.load_session)
    ELSE Caps(FALSE)

\* a faulty gate: the capability is not looked at
load_session_unchecked(caps) == TRUE

\* load_session: caps.as_ref().map(|c| c.load_session).unwrap_or(false)
load_session_supported(caps) == caps.present /\ caps.load_session

\* what an operation returns to its caller
Pending == [outcome |-> "pending", prefix |-> "none", error |-> NoError]
Ok == [outcome |-> "Ok", prefix |-> "none", error |-> NoError]
\* AcpError::InvalidMessage(format!("<prefix>: {} (code {})", message, code))
InvalidMessage(prefix, error) ==
    [outcome |-> "InvalidMessage", prefix |-> prefix, error |-> error]

\* the check every parser begins with: `if let Some(error) = &response.error`
ErrorOr(prefix, response) ==
    IF response.error # NoError THEN InvalidMessage(prefix, response.error) ELSE Ok

parse_initialize_response(response) == ErrorOr("Initialize failed", response)
parse_session_new_response_extended(response) == ErrorOr("Session creation failed", response)
parse_session_load_response(response) == ErrorOr("Session load failed", response)
parse_session_list_response(response) == ErrorOr("Session list failed", response)
parse_void_response(response) == ErrorOr("Request failed", response)
\* AcpConnection::prompt parses its response itself
parse_prompt_response(response) == ErrorOr("Prompt failed", response)

\* what each operation makes of the response it awaited; cancel binds the
\* response to `_` and returns Ok(())
ReturnOf(op, response) ==
    CASE op = "initialize" -> parse_initialize_response(response)
      [] op = "new_session" -> parse_session_new_response_extended(response)
      [] op = "load_session" -> parse_session_load_response(response)
      [] op = "prompt" -> parse_prompt_response(response)
      [] op = "cancel" -> Ok
      [] op \in {"set_mode", "set_model", "set_config"} -> parse_void_response(response)
      [] op = "list_sessions" -> parse_session_list_response(response)

\* the session operations leave the accumulator, the sandbox and the framing alone
SessionOnly == UNCHANGED <<foldVars, sandVars, termVars, lineVars, lifeVars, watchVars, hostVars>>

\* an operation creates its request and sends it with send_request
Call(op) ==
    /\ callOf' = [callOf EXCEPT ![request_id] = op]
    /\ send_request
    /\ UNCHANGED <<capabilities, returned, refused, advertised>>
    /\ SessionOnly

\* AcpConnection::load_session (and load_session_legacy): the capability is
\* looked up first, and without it the operation returns before any request
\* is created
load_session ==
    IF load_session_supported(capabilities)
      THEN Call("load_session")
      ELSE /\ Len(refused) < MaxRefused
           /\ refused' = Append(refused, [op |-> "load_session",
                                          err |-> "CapabilityNotSupported",
                                          arg |-> "loadSession"])
           /\ UNCHANGED <<capabilities, callOf, returned, advertised>>
           /\ UNCHANGED connVars
           /\ SessionOnly

\* the request r is still to be answered by the agent
Unanswered(r) ==
    /\ \A i \in DOMAIN stdout_rx : stdout_rx[i].t = "resp" => stdout_rx[i].id # r
    /\ \A i \in DOMAIN delivLog : delivLog[i].id # r

\* the agent answers a request once, with a result or with an error; the
\* result of initialize carries the capabilities
AgentAnswersCall ==
    /\ ~stdoutClosed /\ emitted < MaxMsgs
    /\ \E r \in ReqIds :
          /\ r < request_id
          /\ callOf[r] # "none"
          /\ Unanswered(r)
          /\ \E error \in AgentErrors \cup {NoError} :
             \E result \in IF callOf[r] = "initialize" /\ error = NoError
                              THEN InitializeResults ELSE {NoResult} :
                /\ stdout_rx' = Append(stdout_rx, [t |-> "resp", id |-> r,
                                                   stop |-> "none", error |-> error,
                                                   result |-> result])
                /\ advertised' = (advertised \/ Caps(TRUE) \in {result.capabilities,
                                                                result.agent_capabilities})
    /\ emitted' = emitted + 1
    /\ UNCHANGED <<updates, requests, stdoutClosed>>
    /\ UNCHANGED <<mode, corrVars, writerAlive, loop, notifVars, callVars, delivLog,
                   outstandingAtClose>>
    /\ UNCHANGED <<capabilities, callOf, returned, refused>>
    /\ SessionOnly

\* send_request has handed the response to the operation, which parses it
\* and returns; initialize stores the capabilities of a result
CallReturns(r) ==
    /\ waiter[r] = "response"
    /\ callOf[r] # "none"
    /\ returned[r] = Pending
    /\ \E i \in DOMAIN delivLog :
          /\ delivLog[i].to = r
          /\ LET ret == ReturnOf(callOf[r], delivLog[i]) IN
             /\ returned' = [returned EXCEPT ![r] = ret]
             /\ capabilities' = IF callOf[r] = "initialize" /\ ret = Ok
                                  THEN get_capabilities(delivLog[i].result)
                                  ELSE capabilities
    /\ UNCHANGED <<callOf, refused, advertised>>
    /\ UNCHANGED connVars
    /\ SessionOnly

(***************************************************************************)
(* Framing of the agent's stdout: the accumulation buffer of message_loop  *)
(* and legacy_message_loop. A line is a sequence of tokens: the brackets,  *)
(* the comma and the colon of JSON, a string "k", the numbers "1" and "2", *)
(* and "w" for text that begins no JSON value.                             *)
(***************************************************************************)
Scalars == {"k", "1", "2"}
Newline == "\n"

\* serde_json::from_str::<Value>: "ok" for one complete value, "eof" when the
\* input ends inside a value (Error::is_eof), "syntax" for any other error,
\* trailing characters after the value included. stack holds the open
\* brackets; st is what the parser expects next.
RECURSIVE Scan(_, _, _, _)
Scan(toks, i, stack, st) ==
    IF i > Len(toks) THEN (IF st = "done" THEN "ok" ELSE "eof")
    ELSE LET c == toks[i]
             after == IF stack = <<>> THEN "done" ELSE "more"
             popped == Front(stack)
             afterPop == IF Len(stack) <= 1 THEN "done" ELSE "more"
         IN
         IF c = Newline THEN Scan(toks, i + 1, stack, st)
         ELSE CASE st = "done" -> "syntax"
                [] st \in {"value", "first"} ->
                     IF c \in Scalars THEN Scan(toks, i + 1, stack, after)
                     ELSE IF c = "[" THEN Scan(toks, i + 1, Append(stack, "["), "first")
                     ELSE IF c = "{" THEN Scan(toks, i + 1, Append(stack, "{"), "firstkey")
                     ELSE IF c = "]" /\ st = "first"
                       THEN Scan(toks, i + 1, popped, afterPop)
                     ELSE "syntax"
                [] st \in {"firstkey", "key"} ->
                     IF c = "k" THEN Scan(toks, i + 1, stack, "colon")
                     ELSE IF c = "}" /\ st = "firstkey"
                       THEN Scan(toks, i + 1, popped, afterPop)
                     ELSE "syntax"
                [] st = "colon" ->
                     IF c = ":" THEN Scan(toks, i + 1, stack, "value") ELSE "syntax"
                [] st = "more" ->
                     LET top == stack[Len(stack)] IN
                     IF c = ","
                       THEN Scan(toks, i + 1, stack, IF top = "[" THEN "value" ELSE "key")
                     ELSE IF (c = "]" /\ top = "[") \/ (c = "}" /\ top = "{")
                       THEN Scan(toks, i + 1, popped, afterPop)
                     ELSE "syntax"

from_str(text) == Scan(text, 1, <<>>, "value")

\* the value a text parses to: the text without its whitespace
Value(text) == SelectSeq(text, LAMBDA c : c # Newline)

\* json_start_index: the place of the first `{` or `[`, 0 for None
json_start_index(s) ==
    LET at == {i \in DOMAIN s : s[i] \in {"{", "["}} IN
    IF at = {} THEN 0 ELSE CHOOSE i \in at : \A j \in at : i <= j

\* buffer.push('\n'); buffer.push_str(&line)
push_line(text, line) == IF text = <<>> THEN line ELSE text \o <<Newline>> \o line

\* one turn of the loop on a line: the buffer it leaves, the value it hands
\* to parse_message (<<>> for none), and whether the buffer was dropped as
\* oversized
Turn(text, value, oversized) == [buffer |-> text, value |-> value, oversized |-> oversized]

accumulate(text, line) ==
    LET pushed == push_line(text, line) IN
    IF Len(pushed) > MaxBuffer THEN Turn(<<>>, <<>>, TRUE)
    ELSE IF from_str(pushed) = "ok" THEN Turn(<<>>, Value(pushed), FALSE)
    ELSE IF from_str(pushed) = "eof" THEN Turn(pushed, <<>>, FALSE)
    ELSE LET idx == json_start_index(line) IN
         IF idx = 0 THEN Turn(<<>>, <<>>, FALSE)
         ELSE LET rest == SubSeq(line, idx, Len(line)) IN
              IF from_str(rest) = "ok" THEN Turn(<<>>, Value(rest), FALSE)
              ELSE IF from_str(rest) = "eof" THEN Turn(rest, <<>>, FALSE)
              ELSE Turn(<<>>, <<>>, FALSE)

\* a JSON-RPC message on one line, told from the others by its number
Message(n) == <<"{", "k", ":", n, "}">>

\* what the agent writes on a line: a message, or text that is no JSON: a
\* word, a word and an opening bracket or brace, a number and a comma
AgentLines == {Message("1"), Message("2"), <<"w">>, <<"w", "[">>, <<"w", "{">>,
               <<"1", ",">>}

RECURSIVE LinesUpTo(_)
LinesUpTo(n) ==
    IF n = 0 THEN {<<>>}
    ELSE LET shorter == LinesUpTo(n - 1) IN
         shorter \cup {Append(ls, l) : ls \in shorter, l \in AgentLines}

\* the empty buffer of the loop
BufferInit ==
    /\ buffer = <<>>
    /\ values = <<>>
    /\ taken = <<>>
    /\ resync = FALSE
    /\ classified = <<>>

\* no output of the agent
FramingIdle ==
    /\ stdout_lines = <<>>
    /\ inbox = <<>>
    /\ BufferInit

\* the loop starts on what the agent is going to write
FramingInit ==
    /\ stdout_lines \in LinesUpTo(MaxLines)
    /\ inbox = <<>>
    /\ BufferInit

\* the loop: recv_line(), then the accumulation and the parse
ReadLine ==
    /\ stdout_lines # <<>>
    /\ LET line == Head(stdout_lines)
           turn == accumulate(buffer, line)
       IN /\ buffer' = turn.buffer
          /\ values' = IF turn.value # <<>> THEN Append(values, turn.value) ELSE values
          /\ resync' = (turn.oversized \/ (resync /\ from_str(line) # "ok"))
          /\ taken' = Append(taken, line)
    /\ stdout_lines' = Tail(stdout_lines)
    /\ UNCHANGED <<inbox, classified>>
    /\ UNCHANGED <<connVars, foldVars, sandVars, termVars, sessVars, lifeVars, watchVars, hostVars>>

(***************************************************************************)
(* The codec: ProtocolHandler::parse_message on a parsed value. A value is *)
(* told by the members it has: id, method (and which), result, error, and  *)
(* by whether its members deserialize into the type the codec reads them   *)
(* as (JsonRpcResponse, JsonRpcRequest, SessionUpdateNotification).        *)
(***************************************************************************)
NoMethod == "none"
Methods == {NoMethod, "session/update", "$/progress", "fs/read_text_file"}
Envelopes == [id : BOOLEAN, method : Methods, result : BOOLEAN, error : BOOLEAN,
              typed : BOOLEAN]

\* ProtocolHandler::parse_notification
parse_notification(method, value) ==
    CASE method = "session/update" -> IF value.typed THEN "SessionUpdate" ELSE "Err"
      [] method = "$/progress" -> "Progress"
      [] OTHER -> "Unknown"

\* ProtocolHandler::parse_message: the AcpMessage variant, or Err
parse_message(value) ==
    IF value.id /\ (value.result \/ value.error)
      THEN (IF value.typed THEN "Response" ELSE "Err")
    ELSE IF value.method # NoMethod /\ ~value.id
      THEN parse_notification(value.method, value)
    ELSE IF value.method # NoMethod /\ value.id
      THEN (IF value.typed THEN "AgentRequest" ELSE "Err")
    ELSE "Err"

RECURSIVE EnvelopesUpTo(_)
EnvelopesUpTo(n) ==
    IF n = 0 THEN {<<>>}
    ELSE LET shorter == EnvelopesUpTo(n - 1) IN
         shorter \cup {Append(vs, v) : vs \in shorter, v \in Envelopes}

\* the loop has parsed the values the agent wrote
CodecInit ==
    /\ stdout_lines = <<>>
    /\ inbox \in EnvelopesUpTo(MaxValues)
    /\ BufferInit

\* the loop: protocol.parse_message(&value) and the match on its result
Classify ==
    /\ inbox # <<>>
    /\ classified' = Append(classified, [value |-> Head(inbox),
                                         class |-> parse_message(Head(inbox))])
    /\ inbox' = Tail(inbox)
    /\ UNCHANGED <<stdout_lines, buffer, values, taken, resync>>
    /\ UNCHANGED <<connVars, foldVars, sandVars, termVars, sessVars, lifeVars, watchVars, hostVars>>

(***************************************************************************)
(* Lifetime of a connection: the child process, the holder of the          *)
(* AcpConnection, terminate, and the end of the broadcast channel          *)
(***************************************************************************)
\* AcpConnection::new / AcpConnection::connect have returned: the child runs,
\* the loop runs, and the caller is about to send initialize
LifeInit ==
    /\ child = "running"
    /\ connection = "connecting"
    /\ terminated = FALSE
    /\ closedSeen = {}

\* what an action on the connection's lifetime leaves alone
LifeOnly ==
    UNCHANGED <<mode, corrVars, writerAlive, emitted, updates, requests, loop, notifVars,
                callVars, delivLog, outstandingAtClose, foldVars, sandVars, termVars,
                sessVars, lineVars, watchVars, hostVars>>

\* Child::kill().await: SIGKILL and wait. The child's end of the stdout pipe
\* is closed, and read_stdout_task reads 0 bytes after the lines already
\* written.
kill ==
    /\ child' = "exited"
    /\ IF stdoutClosed
         THEN UNCHANGED <<stdout_rx, stdoutClosed>>
         ELSE /\ stdoutClosed' = TRUE
              /\ stdout_rx' = Append(stdout_rx, [t |-> "eof", id |-> 0])

\* The AcpConnection is dropped without a call of terminate. Neither
\* AcpConnection nor Transport implements Drop and the Command is not built
\* with kill_on_drop: the child, the three transport tasks and the message
\* loop, which holds an Arc of the transport, go on as they are.
drop_connection ==
    /\ connection' = "discarded"
    /\ UNCHANGED <<child, stdout_rx, stdoutClosed>>

\* AcpConnection::terminate on a connection the caller holds
terminate ==
    /\ connection = "connected"
    /\ kill
    /\ terminated' = TRUE
    /\ UNCHANGED <<connection, closedSeen>>
    /\ LifeOnly

\* CustomAdapter::connect (and the other adapters): AcpConnection::new, then
\* `connection.initialize(client_caps).await?`. On an error the `?` returns
\* and the connection goes out of scope.
connect ==
    /\ mode = "delegate"
    /\ connection = "connecting"
    /\ \E initialized \in BOOLEAN :
          IF initialized
            THEN connection' = "connected" /\ UNCHANGED <<child, stdout_rx, stdoutClosed>>
            ELSE drop_connection
    /\ UNCHANGED <<terminated, closedSeen>>
    /\ LifeOnly

\* AgentManager::start_agent_with_channels: AcpClient::connect, then initialize; on an
\* error `let _ = client.terminate().await` and the client is dropped
start_agent_with_channels ==
    /\ mode = "legacy"
    /\ connection = "connecting"
    /\ \E initialized \in BOOLEAN :
          IF initialized
            THEN /\ connection' = "connected"
                 /\ UNCHANGED <<child, stdout_rx, stdoutClosed, terminated>>
            ELSE /\ kill
                 /\ terminated' = TRUE
                 /\ connection' = "discarded"
    /\ UNCHANGED closedSeen
    /\ LifeOnly

\* AgentManager::stop_agent: clients.remove(id), client.terminate(), and the
\* client is dropped at the end of the function
stop_agent ==
    /\ mode = "legacy"
    /\ connection = "connected"
    /\ kill
    /\ terminated' = TRUE
    /\ connection' = "discarded"
    /\ UNCHANGED closedSeen
    /\ LifeOnly

\* start_new_thread_with_agent with another agent than the selected one:
\* `self.manager.connection = None`
start_new_thread_with_agent ==
    /\ mode = "delegate"
    /\ connection = "connected"
    /\ drop_connection
    /\ UNCHANGED <<terminated, closedSeen>>
    /\ LifeOnly

\* subscribe_updates on a connection the caller holds
subscribe_updates(s) ==
    /\ connection = "connected"
    /\ Subscribe(s)

\* The Senders of the broadcast channel: AcpConnection.notification_tx, and
\* the clone message_loop was started with. legacy_message_loop has none.
SendersDropped ==
    /\ connection = "discarded"
    /\ mode = "delegate" => loop = "ended"

\* broadcast::Receiver::recv when every Sender is dropped and no value is
\* left to read: RecvError::Closed
SubscriberRecvClosed(s) ==
    /\ sub[s].on
    /\ s \notin closedSeen
    /\ sub[s].pos = Len(notification_tx)
    /\ SendersDropped
    /\ closedSeen' = closedSeen \cup {s}
    /\ UNCHANGED <<child, connection, terminated, stdout_rx, stdoutClosed>>
    /\ LifeOnly

\* the subscriber has been told that the stream is over: by Disconnected, or
\* by RecvError::Closed
ObservedClosed(s) ==
    \/ s \in closedSeen
    \/ \E k \in DOMAIN sub[s].rcv : sub[s].rcv[k] = Disconnected

(***************************************************************************)
(* Attribution of file changes: FileWatcher                                *)
(***************************************************************************)
ToolCallIds == {"tc-1", "tc-2"}
ToolMethods == {"fs/write_text_file", "terminal/execute"}
WatchedPaths == {"/w/a", "/w/b"}
\* chrono::Duration::seconds(60), in ticks of 30 s
InferenceWindow == 2

NoCall == "none"
UserAction == [kind |-> "UserAction", tool_call_id |-> NoCall, method |-> NoCall,
               confidence |-> 0]
AcpOperation(tool_call_id, method) ==
    [kind |-> "AcpOperation", tool_call_id |-> tool_call_id, method |-> method,
     confidence |-> 0]
\* confidence in tenths
Inferred(probable_tool_call_id, confidence) ==
    [kind |-> "Inferred", tool_call_id |-> probable_tool_call_id, method |-> NoCall,
     confidence |-> confidence]

WatchInit ==
    /\ active_tool_calls = <<>>
    /\ now = 0
    /\ attributed = [path |-> NoCall, declared |-> {}, recent |-> {}, active |-> 0,
                     result |-> UserAction]

WatchOnly == UNCHANGED <<connVars, foldVars, sandVars, termVars, sessVars, lineVars,
                         lifeVars, hostVars>>

\* FileWatcher::register_tool_call
register_tool_call ==
    /\ Len(active_tool_calls) < MaxToolCalls
    /\ \E tool_call_id \in ToolCallIds, method \in ToolMethods,
          expected_paths \in SUBSET WatchedPaths :
          active_tool_calls' = Append(active_tool_calls,
                                      [id |-> tool_call_id, method |-> method,
                                       started_at |-> now,
                                       expected_paths |-> expected_paths])
    /\ UNCHANGED <<now, attributed>>
    /\ WatchOnly

\* Vec::retain
RECURSIVE retain(_, _)
retain(calls, tool_call_id) ==
    IF calls = <<>> THEN <<>>
    ELSE IF Head(calls).id # tool_call_id
      THEN <<Head(calls)>> \o retain(Tail(calls), tool_call_id)
    ELSE retain(Tail(calls), tool_call_id)

\* FileWatcher::complete_tool_call
complete_tool_call ==
    /\ \E tool_call_id \in ToolCallIds :
          /\ \E i \in DOMAIN active_tool_calls : active_tool_calls[i].id = tool_call_id
          /\ active_tool_calls' = retain(active_tool_calls, tool_call_id)
    /\ UNCHANGED <<now, attributed>>
    /\ WatchOnly

\* time passes
Tick ==
    /\ now < MaxNow
    /\ now' = now + 1
    /\ UNCHANGED <<active_tool_calls, attributed>>
    /\ WatchOnly

\* FileWatcher::attribute_change: the loop over active_tool_calls from the
\* i-th call on, and what follows the loop
RECURSIVE attribute_change(_, _, _, _)
attribute_change(calls, i, path, at) ==
    IF i > Len(calls)
      THEN (IF calls = <<>> THEN UserAction ELSE Inferred(NoCall, 3))
    ELSE IF path \in calls[i].expected_paths
      THEN AcpOperation(calls[i].id, calls[i].method)
    ELSE IF at - calls[i].started_at < InferenceWindow
      THEN Inferred(calls[i].id, 8)
    ELSE attribute_change(calls, i + 1, path, at)

\* the active tool calls that declared the path, and those started within
\* the window
DeclaredBy(calls, path) ==
    {<<calls[i].id, calls[i].method>> : i \in {j \in DOMAIN calls : path \in calls[j].expected_paths}}
StartedWithin(calls, at) ==
    {calls[i].id : i \in {j \in DOMAIN calls : at - calls[j].started_at < InferenceWindow}}

\* a change of a watched path is detected and attributed
AttributeChange ==
    /\ \E path \in WatchedPaths :
          attributed' = [path |-> path,
                         declared |-> DeclaredBy(active_tool_calls, path),
                         recent |-> StartedWithin(active_tool_calls, now),
                         active |-> Len(active_tool_calls),
                         result |-> attribute_change(active_tool_calls, 1, path, now)]
    /\ UNCHANGED <<active_tool_calls, now>>
    /\ WatchOnly

(***************************************************************************)
(* The agent manager: the registry of agent configurations, the status of  *)
(* each agent and the clients of the running ones                          *)
(***************************************************************************)
\* the ids under which agents are registered: a built-in one and a custom one
BuiltinIds == {"claude-code"}
AgentIds == BuiltinIds \cup {"custom"}
\* the AgentConfig values a caller may pass: its id, its builtin flag, and
\* its command
AgentConfigs == [id : AgentIds, builtin : BOOLEAN, command : {"claude", "other"}]
\* HashMap::get returns None
NoConfig == [id |-> "none", builtin |-> FALSE, command |-> "none"]
\* AgentConfig::builtin_agents
builtin_agents == {[id |-> i, builtin |-> TRUE, command |-> "claude"] : i \in BuiltinIds}

\* the result of a call: Ok(..) or the Err it returned
Returned(op, id, err) == [op |-> op, id |-> id, ok |-> err = "none", err |-> err]

\* AgentManager::new
ManagerInit ==
    /\ configs = [i \in AgentIds |->
                    IF i \in BuiltinIds THEN CHOOSE c \in builtin_agents : c.id = i
                    ELSE NoConfig]
    /\ states = [i \in AgentIds |-> IF i \in BuiltinIds THEN "Stopped" ELSE "absent"]
    /\ clients = [i \in AgentIds |-> "absent"]
    /\ mgrCall = Returned("new", "none", "none")

ManagerOnly == UNCHANGED <<connVars, foldVars, sandVars, termVars, sessVars, lineVars,
                           lifeVars, watchVars, uiVars, flowVars>>

\* `if let Some(state) = self.states.get_mut(id) { state.status = .. }`
SetStatus(st, id, agent_status) ==
    IF st[id] = "absent" THEN st ELSE [st EXCEPT ![id] = agent_status]

\* AgentManager::add_agent
AddAgent ==
    /\ \E config \in AgentConfigs :
          IF configs[config.id] # NoConfig
            THEN /\ mgrCall' = Returned("add_agent", config.id, "AlreadyExists")
                 /\ UNCHANGED <<configs, states, clients>>
            ELSE /\ states' = [states EXCEPT ![config.id] = "Stopped"]
                 /\ configs' = [configs EXCEPT ![config.id] = config]
                 /\ mgrCall' = Returned("add_agent", config.id, "none")
                 /\ UNCHANGED clients
    /\ ManagerOnly

\* AgentManager::update_agent: the config is stored under the id of the call
UpdateAgent ==
    /\ \E id \in AgentIds, config \in AgentConfigs :
          IF configs[id] = NoConfig
            THEN /\ mgrCall' = Returned("update_agent", id, "NotFound")
                 /\ UNCHANGED <<configs, states, clients>>
          ELSE IF states[id] = "Running"
            THEN /\ mgrCall' = Returned("update_agent", id, "AlreadyRunning")
                 /\ UNCHANGED <<configs, states, clients>>
          ELSE /\ configs' = [configs EXCEPT ![id] = config]
               /\ mgrCall' = Returned("update_agent", id, "none")
               /\ UNCHANGED <<states, clients>>
    /\ ManagerOnly

\* AgentManager::remove_agent
RemoveAgent ==
    /\ \E id \in AgentIds :
          IF configs[id] = NoConfig
            THEN /\ mgrCall' = Returned("remove_agent", id, "NotFound")
                 /\ UNCHANGED <<configs, states, clients>>
          ELSE IF configs[id].builtin
            THEN /\ mgrCall' = Returned("remove_agent", id, "InvalidConfig")
                 /\ UNCHANGED <<configs, states, clients>>
          ELSE IF states[id] = "Running"
            THEN /\ mgrCall' = Returned("remove_agent", id, "AlreadyRunning")
                 /\ UNCHANGED <<configs, states, clients>>
          ELSE /\ configs' = [configs EXCEPT ![id] = NoConfig]
               /\ states' = [states EXCEPT ![id] = "absent"]
               /\ clients' = [clients EXCEPT ![id] = "absent"]
               /\ mgrCall' = Returned("remove_agent", id, "none")
    /\ ManagerOnly

\* AgentManager::start_agent_with_channels, from its first line to its
\* return: AcpClient::connect and initialize succeed or fail
StartAgent ==
    /\ \E id \in AgentIds :
          IF configs[id] = NoConfig
            THEN /\ mgrCall' = Returned("start_agent", id, "NotFound")
                 /\ UNCHANGED <<configs, states, clients>>
          ELSE IF clients[id] = "running"
            THEN /\ mgrCall' = Returned("start_agent", id, "AlreadyRunning")
                 /\ UNCHANGED <<configs, states, clients>>
          ELSE \E connected, initialized \in BOOLEAN :
                 IF ~connected
                   THEN /\ states' = SetStatus(states, id, "Error")
                        /\ mgrCall' = Returned("start_agent", id, "ConnectionFailed")
                        /\ UNCHANGED <<configs, clients>>
                 ELSE IF ~initialized
                   THEN /\ states' = SetStatus(states, id, "Error")
                        /\ mgrCall' = Returned("start_agent", id, "InitializeFailed")
                        /\ UNCHANGED <<configs, clients>>
                 ELSE /\ states' = SetStatus(states, id, "Running")
                      /\ clients' = [clients EXCEPT ![id] = "running"]
                      /\ mgrCall' = Returned("start_agent", id, "none")
                      /\ UNCHANGED configs
    /\ ManagerOnly

\* AgentManager::stop_agent
StopAgent ==
    /\ \E id \in AgentIds :
          IF clients[id] = "absent"
            THEN /\ mgrCall' = Returned("stop_agent", id, "NotRunning")
                 /\ UNCHANGED <<configs, states, clients>>
            ELSE /\ clients' = [clients EXCEPT ![id] = "absent"]
                 /\ states' = SetStatus(states, id, "Stopped")
                 /\ mgrCall' = Returned("stop_agent", id, "none")
                 /\ UNCHANGED configs
    /\ ManagerOnly

\* the child of a running client exits by itself: AcpClient::is_running
\* returns false from now on
ClientChildExits ==
    /\ \E id \in AgentIds :
          /\ clients[id] = "running"
          /\ clients' = [clients EXCEPT ![id] = "exited"]
    /\ UNCHANGED <<configs, states, mgrCall>>
    /\ ManagerOnly

(***************************************************************************)
(* Specifications                                                          *)
(***************************************************************************)
\* TerminalPolicy::default, scaled to the model's strings
DefaultPolicy == [enabled |-> TRUE, allowed_commands |-> {<<"l">>},
                  blocked_patterns |-> {<<"s">>}]
\* the parts of the host that a specification leaves at rest
\* the host around the connection, as constructed
(***************************************************************************)
(* The UI's manager: AcpManager and AcpModel. Connecting and creating a    *)
(* session run as spawned tasks whose results come back through oneshot    *)
(* channels that poll_pending_operations reads. The connection variables   *)
(* stand for the wire of the connection the UI holds.                      *)
(***************************************************************************)
UiAgents == {"claude-code", "gemini"}
SessionIds == 1..MaxSessions
\* the UI's Receiver of the broadcast channel
UiSub == 1
\* the kinds of session/update serde can build from the agent's JSON
\* (PromptResponseReceived is #[serde(skip)])
WireUpdates == {"agent_message_chunk", "plan", "tool_call"}

NoRx == [result |-> "none"]
NoSession == [agent_id |-> "none", made_on |-> 0, is_loading |-> FALSE, task |-> "none",
              prompt |-> 0]

\* AcpSession::new: agent_id as recorded; made_on is the connection whose
\* new_session made the session, prompt the id of its last prompt request
AcpSession(agent_id, conn) ==
    [agent_id |-> agent_id, made_on |-> conn, is_loading |-> FALSE, task |-> "none",
     prompt |-> 0]

\* AcpManager::new, AcpModel::new
UiInit ==
    /\ manager = [selected_agent_id |-> "claude-code", connection |-> 0,
                  notification_rx |-> FALSE, connection_state |-> "Disconnected",
                  pending_connection_rx |-> NoRx, pending_session_rx |-> NoRx,
                  pending_message |-> FALSE, error_message |-> FALSE,
                  auto_create_session |-> FALSE,
                  sessions |-> [s \in SessionIds |-> NoSession]]
    /\ active_session_id = 0
    /\ connects = <<>>
    /\ created = 0

AroundUi == UNCHANGED <<foldVars, sandVars, termVars, sessVars, lineVars, lifeVars,
                        watchVars, mgrVars, flowVars>>
UiOnly == UNCHANGED connVars /\ AroundUi

\* AcpManager::start_connect
start_connect(m) ==
    IF m.connection_state = "Connecting" THEN m
    ELSE IF m.connection # 0 THEN m
    ELSE [m EXCEPT !.connection_state = "Connecting", !.error_message = FALSE,
                   !.pending_connection_rx = [result |-> "empty",
                                              agent |-> m.selected_agent_id,
                                              conn |-> 0]]

\* AcpManager::start_create_session: the task keeps a clone of the connection
start_create_session(m) ==
    IF m.connection = 0 THEN [m EXCEPT !.error_message = TRUE]
    ELSE [m EXCEPT !.pending_session_rx = [result |-> "empty", on |-> m.connection,
                                           session_id |-> 0]]

\* poll_pending_operations, `if let Some(mut rx) = self.pending_connection_rx.take()`
poll_connection(m) ==
    LET rx == m.pending_connection_rx IN
    IF rx = NoRx \/ rx.result = "empty" THEN m
    ELSE IF rx.result = "ok"
      THEN LET m1 == [m EXCEPT !.pending_connection_rx = NoRx, !.connection = rx.conn,
                               !.notification_rx = TRUE,
                               !.connection_state = "Connected"]
           IN IF m1.auto_create_session \/ m1.pending_message
                THEN [start_create_session(m1) EXCEPT !.auto_create_session = FALSE]
                ELSE m1
      ELSE [m EXCEPT !.pending_connection_rx = NoRx, !.connection_state = "Error",
                     !.error_message = TRUE]

\* the session id poll_pending_operations returns, 0 for None
new_session_id(m) ==
    LET rx == m.pending_session_rx IN
    IF rx # NoRx /\ rx.result = "ok" THEN rx.session_id ELSE 0

\* poll_pending_operations, `if let Some(mut rx) = self.pending_session_rx.take()`
poll_session(m) ==
    LET rx == m.pending_session_rx IN
    IF rx = NoRx \/ rx.result = "empty" THEN m
    ELSE IF rx.result = "ok"
      THEN [m EXCEPT !.pending_session_rx = NoRx,
                     !.sessions[rx.session_id] = AcpSession(m.selected_agent_id, rx.on)]
      ELSE [m EXCEPT !.pending_session_rx = NoRx, !.error_message = TRUE]

\* add_user_message and set_loading(true); r is the id the prompt will take
Loading(session, r) ==
    IF session = NoSession THEN session
    ELSE [session EXCEPT !.is_loading = TRUE, !.prompt = r]

\* AcpManager::process_session_update
process_session_update(m, s, kind) ==
    IF m.sessions[s] = NoSession THEN m
    ELSE LET session == m.sessions[s]
             task == IF session.task = "none" THEN "Pending" ELSE session.task
         IN [m EXCEPT !.sessions[s] =
               IF kind = "plan" THEN [session EXCEPT !.task = "Planning"]
               ELSE IF kind = "prompt_response_received"
                 THEN [session EXCEPT !.is_loading = FALSE, !.task = "Completed"]
               ELSE [session EXCEPT !.task = task]]

\* AcpManager::process_notification of the value n, when it is an update of
\* the given kind for session s
process_notification(m, n, s, kind) ==
    IF n.t = "upd" THEN process_session_update(m, s, kind)
    ELSE IF n.t = "prompt_response"
      THEN process_session_update(m, s, "prompt_response_received")
    ELSE [m EXCEPT !.connection = 0, !.connection_state = "Disconnected"]

\* AcpModel::start_new_thread
StartNewThread ==
    /\ active_session_id' = 0
    /\ manager' = IF manager.connection = 0
                    THEN start_connect([manager EXCEPT !.auto_create_session = TRUE])
                    ELSE start_create_session(manager)
    /\ UNCHANGED <<connects, created>>
    /\ UiOnly

\* AcpModel::start_new_thread_with_agent
StartNewThreadWithAgent(a) ==
    /\ active_session_id' = 0
    /\ LET m1 == IF manager.selected_agent_id # a
                   THEN [manager EXCEPT !.connection = 0, !.notification_rx = FALSE,
                                        !.connection_state = "Disconnected"]
                   ELSE manager
           m2 == [m1 EXCEPT !.selected_agent_id = a, !.auto_create_session = TRUE]
       IN manager' = start_connect(m2)
    /\ UNCHANGED <<connects, created>>
    /\ UiOnly

\* the task start_connect spawned: adapters.connect returns and, when Ok, the
\* task subscribes to the connection's updates; the result goes to the
\* Receiver the manager holds now
ConnectTaskCompletes ==
    /\ manager.pending_connection_rx # NoRx
    /\ manager.pending_connection_rx.result = "empty"
    /\ \/ /\ Len(connects) < MaxConnects
          /\ connects' = Append(connects, manager.pending_connection_rx.agent)
          /\ manager' = [manager EXCEPT !.pending_connection_rx.result = "ok",
                                        !.pending_connection_rx.conn = Len(connects) + 1]
          /\ sub' = [sub EXCEPT ![UiSub] = [on |-> TRUE, from |-> Len(notification_tx),
                                            pos |-> Len(notification_tx), rcv |-> <<>>,
                                            lagged |-> FALSE]]
       \/ /\ manager' = [manager EXCEPT !.pending_connection_rx.result = "err"]
          /\ UNCHANGED <<connects, sub>>
    /\ UNCHANGED <<active_session_id, created>>
    /\ UNCHANGED <<mode, corrVars, writerAlive, agentVars, loop, notification_tx,
                   update_tx, consumed, callVars, delivLog, outstandingAtClose>>
    /\ AroundUi

\* the task start_create_session spawned: new_session returns on the
\* connection the task holds
SessionTaskCompletes ==
    /\ manager.pending_session_rx # NoRx
    /\ manager.pending_session_rx.result = "empty"
    /\ \/ /\ created < MaxSessions
          /\ created' = created + 1
          /\ manager' = [manager EXCEPT !.pending_session_rx.result = "ok",
                                        !.pending_session_rx.session_id = created + 1]
       \/ /\ manager' = [manager EXCEPT !.pending_session_rx.result = "err"]
          /\ UNCHANGED created
    /\ UNCHANGED <<active_session_id, connects>>
    /\ UiOnly

\* AcpModel::poll_and_process_updates up to poll_updates: the pending
\* operations, the new session made active, the queued message sent
PollPendingOperations ==
    LET m1 == poll_session(poll_connection(manager))
        new == new_session_id(poll_connection(manager))
    IN
    /\ manager.pending_connection_rx # NoRx \/ manager.pending_session_rx # NoRx
    /\ IF new # 0
         THEN /\ active_session_id' = new
              /\ IF m1.pending_message
                   THEN /\ manager' = [m1 EXCEPT !.pending_message = FALSE,
                                                 !.sessions[new] = Loading(@, request_id)]
                        /\ IF m1.connection # 0 THEN prompt_streaming
                                                ELSE UNCHANGED connVars
                   ELSE /\ manager' = m1
                        /\ UNCHANGED connVars
         ELSE /\ manager' = m1
              /\ UNCHANGED <<active_session_id, connVars>>
    /\ UNCHANGED <<connects, created>>
    /\ AroundUi

\* AcpModel::poll_and_process_updates from poll_updates on, one notification
\* at a time: try_recv on the stored Receiver, then process_notification
PollUpdates ==
    /\ manager.notification_rx
    /\ broadcast_recv(UiSub)
    /\ IF sub[UiSub].pos < Evicted(notification_tx)
         THEN UNCHANGED manager
         ELSE \E s \in SessionIds, kind \in WireUpdates :
                manager' = process_notification(manager,
                                                notification_tx[sub[UiSub].pos + 1],
                                                s, kind)
    /\ UNCHANGED <<active_session_id, connects, created>>
    /\ AroundUi

\* AcpModel::start_send_message
StartSendMessage ==
    /\ IF active_session_id # 0 /\ manager.connection # 0
         THEN /\ manager' = [manager EXCEPT
                               !.sessions[active_session_id] = Loading(@, request_id)]
              /\ prompt_streaming
         ELSE /\ LET m == [manager EXCEPT !.pending_message = TRUE] IN
                 manager' = IF m.connection = 0 /\ m.connection_state # "Connecting"
                              THEN start_connect(m)
                            ELSE IF m.connection # 0 /\ active_session_id = 0
                              THEN start_create_session(m)
                            ELSE m
              /\ UNCHANGED connVars
    /\ UNCHANGED <<active_session_id, connects, created>>
    /\ AroundUi

(***************************************************************************)
(* The transport with its bounds: mpsc::channel(100) for stdin and stdout, *)
(* the pipes of the child, and an agent that is blocked in a write to its  *)
(* stdout until the pipe takes the line, and reads its stdin only between  *)
(* writes.                                                                 *)
(***************************************************************************)
NoLine == [t |-> "none", id |-> 0]

FlowInit ==
    /\ stdin_tx = <<>>
    /\ stdin_pipe = <<>>
    /\ stdout_pipe = <<>>
    /\ agentWriting = NoLine
    /\ agentGot = {}

AroundFlow == UNCHANGED <<foldVars, sandVars, termVars, sessVars, lineVars, lifeVars,
                          watchVars, mgrVars, uiVars>>

\* send_request: the slot is inserted, then stdin_tx.send(json).await, which
\* waits while the queue is full
FlowSendRequest ==
    /\ request_id <= MaxReq
    /\ Len(stdin_tx) < QueueCap
    /\ LET r == request_id IN
       /\ request_id' = next_id(request_id)
       /\ issued' = Append(issued, r)
       /\ reqKind' = [reqKind EXCEPT ![r] = "wait"]
       /\ pending_requests' = InsertSlot(pending_requests, r)
       /\ waiter' = [waiter EXCEPT ![r] = "waiting"]
       /\ stdin_tx' = Append(stdin_tx, [t |-> "req", id |-> r])
    /\ UNCHANGED <<mode, writerAlive, agentVars, loop, notifVars, callVars, delivLog,
                   outstandingAtClose>>
    /\ UNCHANGED <<stdin_pipe, stdout_pipe, agentWriting, agentGot>>
    /\ AroundFlow

\* write_stdin_task: rx.recv(), then write_all and flush, which return once
\* the pipe has taken the line
WriteStdinTask ==
    /\ stdin_tx # <<>>
    /\ Len(stdin_pipe) < PipeCap
    /\ stdin_pipe' = Append(stdin_pipe, Head(stdin_tx))
    /\ stdin_tx' = Tail(stdin_tx)
    /\ sent_responses' = IF Head(stdin_tx).t = "reply"
                           THEN Append(sent_responses, Head(stdin_tx))
                           ELSE sent_responses
    /\ UNCHANGED <<mode, corrVars, writerAlive, agentVars, loop, notifVars,
                   agent_request_tx, handlerAlive, handlerResp, curReq, handled,
                   delivLog, outstandingAtClose>>
    /\ UNCHANGED <<stdout_pipe, agentWriting, agentGot>>
    /\ AroundFlow

\* read_stdout_task: read_line, then tx.send(line).await, which waits while
\* the queue is full
ReadStdoutTask ==
    /\ stdout_pipe # <<>>
    /\ Len(stdout_rx) < QueueCap
    /\ stdout_rx' = Append(stdout_rx, Head(stdout_pipe))
    /\ stdout_pipe' = Tail(stdout_pipe)
    /\ UNCHANGED <<mode, corrVars, writerAlive, emitted, updates, requests, stdoutClosed,
                   loop, notifVars, callVars, delivLog, outstandingAtClose>>
    /\ UNCHANGED <<stdin_tx, stdin_pipe, agentWriting, agentGot>>
    /\ AroundFlow

\* the agent reads a line from its stdin, between two writes
AgentReadsStdin ==
    /\ agentWriting = NoLine
    /\ stdin_pipe # <<>>
    /\ stdin_pipe' = Tail(stdin_pipe)
    /\ agentGot' = IF Head(stdin_pipe).t = "req" THEN agentGot \cup {Head(stdin_pipe).id}
                   ELSE agentGot
    /\ UNCHANGED <<stdin_tx, stdout_pipe, agentWriting>>
    /\ UNCHANGED connVars
    /\ AroundFlow

\* the agent begins to write a line: the response to a request it has read, a
\* session update, or a request of its own
AgentStartsWrite ==
    /\ agentWriting = NoLine
    /\ emitted < MaxWrites
    /\ \/ \E r \in agentGot :
            /\ agentWriting' = [t |-> "resp", id |-> r, stop |-> "none",
                                error |-> NoError, result |-> NoResult]
            /\ agentGot' = agentGot \ {r}
       \/ /\ \E t \in {"upd", "req"} : agentWriting' = [t |-> t, id |-> emitted + 1]
          /\ UNCHANGED agentGot
    /\ emitted' = emitted + 1
    /\ UNCHANGED <<mode, corrVars, writerAlive, stdout_rx, updates, requests,
                   stdoutClosed, loop, notifVars, callVars, delivLog,
                   outstandingAtClose>>
    /\ UNCHANGED <<stdin_tx, stdin_pipe, stdout_pipe>>
    /\ AroundFlow

\* the agent's write returns: the pipe has taken the line
AgentWriteCompletes ==
    /\ agentWriting # NoLine
    /\ Len(stdout_pipe) < PipeCap
    /\ stdout_pipe' = Append(stdout_pipe, agentWriting)
    /\ agentWriting' = NoLine
    /\ UNCHANGED <<stdin_tx, stdin_pipe, agentGot>>
    /\ UNCHANGED connVars
    /\ AroundFlow

\* AcpMessage::AgentRequest in message_loop and in legacy_message_loop: the
\* loop awaits the delegate, or the handler's oneshot
FlowDispatchRequest ==
    /\ HeadIs("req")
    /\ loop' = "callback"
    /\ curReq' = Head(stdout_rx).id
    /\ stdout_rx' = Tail(stdout_rx)
    /\ UNCHANGED <<mode, corrVars, writerAlive, emitted, updates, requests, stdoutClosed,
                   notifVars, agent_request_tx, handlerAlive, handlerResp,
                   sent_responses, handled, delivLog, outstandingAtClose>>
    /\ UNCHANGED flowVars
    /\ AroundFlow

\* the callback returns its reply to the loop
CallbackReturns ==
    /\ loop = "callback"
    /\ loop' = "reply"
    /\ UNCHANGED <<mode, corrVars, writerAlive, agentVars, notifVars, callVars, delivLog,
                   outstandingAtClose>>
    /\ UNCHANGED flowVars
    /\ AroundFlow

\* transport.send_response(&response).await in the loop: stdin_tx.send waits
\* while the queue is full, and the loop reads no line meanwhile
FlowSendResponse ==
    /\ loop = "reply"
    /\ Len(stdin_tx) < QueueCap
    /\ stdin_tx' = Append(stdin_tx, [t |-> "reply", id |-> curReq])
    /\ handled' = handled \cup {curReq}
    /\ curReq' = 0
    /\ loop' = "run"
    /\ UNCHANGED <<mode, corrVars, writerAlive, agentVars, notifVars, agent_request_tx,
                   handlerAlive, handlerResp, sent_responses, delivLog,
                   outstandingAtClose>>
    /\ UNCHANGED <<stdin_pipe, stdout_pipe, agentWriting, agentGot>>
    /\ AroundFlow

HostInit == ManagerInit /\ UiInit /\ FlowInit
Quiet == FramingIdle /\ LifeInit /\ WatchInit /\ HostInit
Idle == TerminalInit /\ policy = DefaultPolicy /\ Quiet

Init == ConnInit /\ FoldInit /\ SandboxInit /\ Idle

\* The correlator: outbound requests, the agent's responses, the end of the
\* agent's stdout.
Next ==
    \/ SendRequest
    \/ PromptStreaming
    \/ \E r \in ReqIds : RequestTimeout(r)
    \/ \E r \in ReqIds : CancelWait(r)
    \/ WriterFails
    \/ AgentResponds
    \/ AgentClosesStdout
    \/ DispatchResponse
    \/ DispatchClosed
    \/ LegacyDispatchClosed

Spec == Init /\ [][Next]_vars

\* The dispatcher: the agent's session updates and requests, the subscribers
\* and the runtime tasks behind the legacy channels.
NextDispatch ==
    \/ WriterFails
    \/ AgentUpdates
    \/ AgentRequests
    \/ AgentClosesStdout
    \/ DispatchUpdate
    \/ DispatchAgentRequest
    \/ DispatchClosed
    \/ \E s \in Subs : Subscribe(s)
    \/ \E s \in Subs : SubscriberRecv(s)
    \/ LegacyDispatchUpdate
    \/ ConsumeUpdate
    \/ LegacyDispatchAgentRequest
    \/ HandlerAnswers
    \/ HandlerChannelCloses
    \/ LegacyResume
    \/ LegacyDispatchClosed

SpecDispatch == Init /\ [][NextDispatch]_vars

\* The accumulator of one session
InitFold == ConnInit /\ mode = "delegate" /\ FoldInit /\ SandboxInit /\ Idle

NextFold ==
    \/ FoldPlan
    \/ FoldChunk
    \/ FoldToolCall
    \/ FoldToolCallUpdate
    \/ FoldCurrentMode
    \/ FoldAvailableCommands
    \/ FoldPromptResponseReceived
    \/ handle_prompt_response

SpecFold == InitFold /\ [][NextFold]_vars

\* A prompt, streamed and answered, and possibly cancelled on the way
InitPrompt == ConnInit /\ mode = "legacy" /\ FoldInit /\ SandboxInit /\ Idle

NextPrompt ==
    \/ Prompt
    \/ Cancel
    \/ \E r \in ReqIds : RequestTimeout(r)
    \/ AgentStreams
    \/ AgentResponds
    \/ AgentAnswersPrompt
    \/ AgentClosesStdout
    \/ DispatchResponse
    \/ LegacyDispatchUpdate
    \/ LegacyDispatchClosed
    \/ RuntimeProcessUpdate
    \/ PromptReturns

SpecPrompt == InitPrompt /\ [][NextPrompt]_vars

\* The sandbox: the user's grants and the agent's fs/* requests
InitSandbox == ConnInit /\ FoldInit /\ SandboxInit /\ Idle

NextSandbox ==
    \/ ledgerOps < MaxSetupOps /\ grant_access
    \/ ledgerOps < MaxSetupOps /\ revoke_access
    \/ FsReadTextFile
    \/ FsListDirectory
    \/ FsWriteTextFile
    \/ FsDeleteFile
    \/ FsMoveFile
    \/ FsCreateDirectory

SpecSandbox == InitSandbox /\ [][NextSandbox]_vars

\* The session operations: the calls, the agent's answers, what is returned
NextSession ==
    \/ \E op \in Operations \ {"load_session"} : Call(op)
    \/ load_session
    \/ AgentAnswersCall
    \/ DispatchResponse
    \/ \E r \in ReqIds : CallReturns(r)

SpecSession == Init /\ [][NextSession]_vars

\* The framing: the loop reads what the agent writes, line by line
InitFraming ==
    /\ ConnInit /\ mode = "delegate" /\ FoldInit /\ SandboxInit
    /\ TerminalInit /\ policy = DefaultPolicy
    /\ FramingInit /\ LifeInit /\ WatchInit /\ HostInit

NextFraming == ReadLine

SpecFraming == InitFraming /\ [][NextFraming]_vars

\* The codec: the loop classifies the values it has parsed
InitCodec ==
    /\ ConnInit /\ mode = "delegate" /\ FoldInit /\ SandboxInit
    /\ TerminalInit /\ policy = DefaultPolicy
    /\ CodecInit /\ LifeInit /\ WatchInit /\ HostInit

NextCodec == Classify

SpecCodec == InitCodec /\ [][NextCodec]_vars

\* The lifetime of a connection: the loop and the subscribers are scheduled
\* again and again; what the agent and the holder of the connection do is
\* up to them.
NextLifecycle ==
    \/ connect
    \/ start_agent_with_channels
    \/ terminate
    \/ stop_agent
    \/ start_new_thread_with_agent
    \/ AgentUpdates
    \/ AgentClosesStdout
    \/ DispatchUpdate
    \/ DispatchClosed
    \/ LegacyDispatchUpdate
    \/ ConsumeUpdate
    \/ LegacyDispatchClosed
    \/ \E s \in Subs : subscribe_updates(s)
    \/ \E s \in Subs : SubscriberRecv(s)
    \/ \E s \in Subs : SubscriberRecvClosed(s)

FairLifecycle ==
    /\ WF_vars(DispatchUpdate)
    /\ WF_vars(DispatchClosed)
    /\ WF_vars(LegacyDispatchUpdate)
    /\ WF_vars(ConsumeUpdate)
    /\ WF_vars(LegacyDispatchClosed)
    /\ \A s \in Subs : WF_vars(SubscriberRecv(s))
    /\ \A s \in Subs : WF_vars(SubscriberRecvClosed(s))

SpecLifecycle == Init /\ [][NextLifecycle]_vars /\ FairLifecycle

\* The watcher: tool calls are registered and completed, time passes, and
\* changes are attributed
NextWatcher ==
    \/ register_tool_call
    \/ complete_tool_call
    \/ Tick
    \/ AttributeChange

SpecWatcher == Init /\ [][NextWatcher]_vars

\* The agent manager: agents are registered, updated, removed, started and
\* stopped, and the child of a started agent may exit
NextManager ==
    \/ AddAgent
    \/ UpdateAgent
    \/ RemoveAgent
    \/ StartAgent
    \/ StopAgent
    \/ ClientChildExits

SpecManager == Init /\ [][NextManager]_vars

\* the agent answers requests it has read: none is still being written
AgentRespondsToSent ==
    /\ \A r \in ReqIds : waiter[r] # "sending"
    /\ AgentResponds

\* The waiter map, with the outbound path in its two steps: the slot is
\* inserted, then the write to the transport returns.
NextWaiters ==
    \/ RegisterSlot
    \/ \E r \in ReqIds : SendReturns(r)
    \/ \E r \in ReqIds : RequestTimeout(r)
    \/ \E r \in ReqIds : CancelWait(r)
    \/ WriterFails
    \/ AgentRespondsToSent
    \/ AgentClosesStdout
    \/ DispatchResponse
    \/ DispatchClosed
    \/ LegacyDispatchClosed

SpecWaiters == Init /\ [][NextWaiters]_vars

\* The transport under load: the host's requests, the agent's lines, the
\* four tasks of the connection and the consumer of the legacy update channel.
NextFlow ==
    \/ FlowSendRequest
    \/ WriteStdinTask
    \/ ReadStdoutTask
    \/ AgentReadsStdin
    \/ AgentStartsWrite
    \/ AgentWriteCompletes
    \/ DispatchResponse
    \/ DispatchUpdate
    \/ LegacyDispatchUpdate
    \/ ConsumeUpdate
    \/ FlowDispatchRequest
    \/ CallbackReturns
    \/ FlowSendResponse

\* every task runs when it can; the agent finishes a write the pipe has room
\* for, and reads its stdin when it is not writing
FairFlow ==
    /\ WF_vars(WriteStdinTask)
    /\ WF_vars(ReadStdoutTask)
    /\ WF_vars(AgentReadsStdin)
    /\ WF_vars(AgentWriteCompletes)
    /\ WF_vars(DispatchResponse)
    /\ WF_vars(DispatchUpdate)
    /\ WF_vars(LegacyDispatchUpdate)
    /\ WF_vars(ConsumeUpdate)
    /\ WF_vars(FlowDispatchRequest)
    /\ WF_vars(CallbackReturns)
    /\ WF_vars(FlowSendResponse)

SpecFlow == Init /\ [][NextFlow]_vars /\ FairFlow

\* The UI's manager: the user starts threads, switches agents and sends
\* messages while the connect and session tasks complete.
InitUi == Init /\ mode = "delegate"

NextUi ==
    \/ StartNewThread
    \/ \E a \in UiAgents : StartNewThreadWithAgent(a)
    \/ StartSendMessage
    \/ ConnectTaskCompletes
    \/ SessionTaskCompletes
    \/ PollPendingOperations

SpecUi == InitUi /\ [][NextUi]_vars

\* A turn in the UI: one agent, a thread, messages, the agent's updates and
\* its responses. The dispatcher, the spawned tasks and the UI's polling
\* keep running.
NextTurn ==
    \/ StartNewThread
    \/ StartSendMessage
    \/ ConnectTaskCompletes
    \/ SessionTaskCompletes
    \/ PollPendingOperations
    \/ AgentResponds
    \/ AgentUpdates
    \/ DispatchResponse
    \/ DispatchUpdate
    \/ PollUpdates

FairTurn ==
    /\ WF_vars(ConnectTaskCompletes)
    /\ WF_vars(SessionTaskCompletes)
    /\ WF_vars(PollPendingOperations)
    /\ WF_vars(DispatchResponse)
    /\ WF_vars(DispatchUpdate)
    /\ WF_vars(PollUpdates)

SpecTurn == InitUi /\ [][NextTurn]_vars /\ FairTurn

\* The ledger: the user's grants and revocations, and access checks
InitLedger == ConnInit /\ mode = "delegate" /\ FoldInit /\ SandboxInit /\ Idle

NextLedger ==
    \/ grant_access
    \/ revoke_access
    \/ check_access

SpecLedger == InitLedger /\ [][NextLedger]_vars

\* The terminal: the user's grants and the agent's terminal/execute requests
InitTerminal ==
    ConnInit /\ mode = "delegate" /\ FoldInit /\ SandboxInit /\ TerminalInit /\ Quiet

NextTerminal ==
    \/ ledgerOps < MaxSetupOps /\ grant_access
    \/ ledgerOps < MaxSetupOps /\ revoke_access
    \/ TerminalExecute

SpecTerminal == InitTerminal /\ [][NextTerminal]_vars

(***************************************************************************)
(* Properties of the connection                                            *)
(***************************************************************************)
\* the ids of the session updates in a sequence of messages, in order
RECURSIVE UpdIds(_)
UpdIds(log) ==
    IF log = <<>> THEN <<>>
    ELSE IF Head(log).t = "upd" THEN <<Head(log).id>> \o UpdIds(Tail(log))
    ELSE UpdIds(Tail(log))

\* the replies written to the agent under the id q
RepliesTo(q) == {i \in DOMAIN sent_responses : sent_responses[i].id = q}

\* the dispatched responses handed to the waiter of r
DeliveredTo(r) == {i \in DOMAIN delivLog : delivLog[i].to = r}

\* C1: a slot that is still in the pending map belongs to a request whose
\* caller is still waiting; every request that finished, by its response, by
\* the 30-second timeout or otherwise, has had its slot removed from the map.
C1_NoSlotOfFinishedRequest ==
    \A r \in pending_requests : waiter[r] = "waiting"

\* C2: every request whose caller was waiting when the transport closed and
\* whose caller has since been resolved was resolved with
\* ConnectionFailed("Response channel closed").
C2_ClosedWaitersGetConnectionFailed ==
    \A r \in outstandingAtClose : waiter[r] \in {"waiting", "closed"}

\* C3: every dispatched response goes to the waiter registered under its own
\* id when there is one, and to nobody when there is none; no waiter gets
\* more than one response, and a caller that saw a response got exactly one.
C3_ResponseToOwnWaiterOnce ==
    /\ \A i \in DOMAIN delivLog :
          /\ delivLog[i].to \in {0, delivLog[i].id}
          /\ delivLog[i].had <=> delivLog[i].to = delivLog[i].id
    /\ \A r \in ReqIds :
          /\ Cardinality(DeliveredTo(r)) <= 1
          /\ waiter[r] = "response" <=> Cardinality(DeliveredTo(r)) = 1

\* C3 witness: the response to a waiting request was delivered to its waiter
\* and a second response under the same id was dropped
C3_Witness ==
    \E i, j \in DOMAIN delivLog :
        /\ i < j
        /\ delivLog[i].id = delivLog[j].id
        /\ delivLog[i].to = delivLog[i].id
        /\ delivLog[j].to = 0
        /\ waiter[delivLog[i].id] = "response"

\* C5: for every dispatched response to a prompt submitted by
\* prompt_streaming there is a prompt-response-received event on the
\* notification stream (the broadcast channel, or the legacy update channel).
C5_StreamingResponseSynthesized ==
    \A i \in DOMAIN delivLog :
        reqKind[delivLog[i].id] = "nowait" =>
            \/ \E k \in DOMAIN notification_tx :
                  notification_tx[k] = PromptResponseReceived(delivLog[i].id)
            \/ \E k \in DOMAIN update_tx :
                  update_tx[k] = PromptResponseReceived(delivLog[i].id)
            \/ \E k \in DOMAIN consumed :
                  consumed[k] = PromptResponseReceived(delivLog[i].id)

\* C9: every agent request the message loop is done with has exactly one
\* reply under its id written back to the agent (as long as the writer task
\* is there to take it), on the delegate path and on the legacy path.
C9_EveryRequestRepliedOnce ==
    writerAlive => \A q \in handled : Cardinality(RepliesTo(q)) = 1

\* C22: every reply written back to the agent answers its request by the
\* kind of the request: an unknown method with error -32601, a known method
\* with malformed params with -32602, and a known method with well-formed
\* params with a result or, when the handler failed, with error -32603; on
\* the delegate path and on the legacy path.
C22_AgentRequestErrorCodes ==
    \A i \in DOMAIN sent_responses, request \in requests :
        request.id = sent_responses[i].id =>
            LET code == sent_responses[i].code IN
            IF request.method = "fs/no_such_method" THEN code = -32601
            ELSE IF request.params = "malformed" THEN code = -32602
            ELSE code \in {0, -32603}

\* C10: the session updates the loop has passed on, followed by those it has
\* still to dispatch, are the agent's updates in emission order, and a
\* subscriber that did not lag has received exactly the values sent since it
\* subscribed up to its cursor, in that order.
C10_UpdatesInOrderNoneLost ==
    /\ mode = "delegate" =>
          UpdIds(notification_tx) \o UpdIds(stdout_rx) = updates
    /\ mode = "legacy" =>
          UpdIds(consumed) \o UpdIds(update_tx) \o UpdIds(stdout_rx) = updates
    /\ \A s \in Subs :
          (sub[s].on /\ ~sub[s].lagged) =>
              /\ sub[s].pos <= Len(notification_tx)
              /\ sub[s].rcv = SubSeq(notification_tx, sub[s].from + 1, sub[s].pos)

\* C10 witness: a subscriber has received the updates the agent wrote first
\* and third, and the agent's request written between them has been answered
C10_Witness ==
    /\ updates = <<1, 3>>
    /\ sub[1].on /\ ~sub[1].lagged
    /\ sub[1].rcv = <<Update(1), Update(3)>>
    /\ 2 \in handled
    /\ Cardinality(RepliesTo(2)) = 1

\* the notification stream of the connection: the broadcast channel, or the
\* legacy update channel with what its consumer has taken from it
NotificationStream ==
    IF mode = "delegate" THEN notification_tx ELSE consumed \o update_tx

\* C11: once the message loop has ended on the closure of the transport, a
\* Disconnected notification is on the notification stream, and every session
\* update the agent wrote before the closure is on the stream before it; in
\* the delegate loop and in the legacy loop.
C11_DisconnectedAfterEveryUpdate ==
    loop = "ended" =>
        \E k \in DOMAIN NotificationStream :
            /\ NotificationStream[k] = Disconnected
            /\ UpdIds(SubSeq(NotificationStream, 1, k - 1)) = updates

\* C12: a request whose caller gave up, by cancelling the future or by the
\* 30-second timeout, has no slot in the waiter map; a response that arrives
\* for a request nobody waits for finds no slot and is handed to nobody.
C12_AbandonedSlotDropped ==
    /\ \A r \in ReqIds :
          waiter[r] \in {"timeout", "cancelled"} => r \notin pending_requests
    /\ \A i \in DOMAIN delivLog :
          ~delivLog[i].had => delivLog[i].slot = 0 /\ delivLog[i].to = 0

\* C13: the ids handed out on one connection are strictly increasing in the
\* order they were handed out, whichever entry point asked for them; no two
\* requests share an id.
C13_RequestIdsStrictlyIncreasing ==
    \A i, j \in DOMAIN issued : i < j => issued[i] < issued[j]

\* C13 witness: two requests were issued, one awaited and one not, and both
\* are in flight under their own ids
C13_Witness ==
    /\ Len(issued) = 2
    /\ reqKind[issued[1]] # reqKind[issued[2]]
    /\ reqKind[issued[1]] # "none" /\ reqKind[issued[2]] # "none"

(***************************************************************************)
(* Properties of the session accumulator                                   *)
(***************************************************************************)
\* a tool call record without its timestamps
Unstamped(tc) ==
    IF tc.present THEN [tc EXCEPT !.started_at = 0, !.completed_at = 0] ELSE tc

\* C4: once the status is terminal no fold changes the status, the stop
\* reason, the plan, the messages, the tool calls (their timestamps apart) or
\* the artifacts.
C4_TerminalStateFrozen ==
    [][is_terminal(status) =>
          /\ UNCHANGED <<status, stop_reason, plan, messages, artifacts>>
          /\ \A t \in ToolIds : Unstamped(tool_calls'[t]) = Unstamped(tool_calls[t])]_vars

\* the message chunks folded so far, in arrival order
ChunkLog == SelectSeq(folded, LAMBDA e : e.u = "chunk")

\* the places in a chunk log where a run of chunks of one kind begins
RunStarts(log) == {i \in DOMAIN log : i = 1 \/ log[i].kind # log[i - 1].kind}

\* the place where the run that begins at i ends
RunEnd(log, i) ==
    LET later == {j \in RunStarts(log) : j > i} IN
    IF later = {} THEN Len(log)
    ELSE (CHOOSE j \in later : \A k \in later : j <= k) - 1

\* C14: the message log has one message per run of chunks of one kind, of
\* that kind, and its content is the fragments of the run's N chunks, N of
\* them, in arrival order; a chunk of another kind than the tail message
\* begins a new message.
C14_OneMessagePerRunOfChunks ==
    LET log == ChunkLog IN
    /\ Len(messages) = Cardinality(RunStarts(log))
    /\ \A i \in RunStarts(log) :
          LET k == Cardinality({j \in RunStarts(log) : j <= i})
              n == RunEnd(log, i) - i + 1
          IN /\ messages[k].kind = log[i].kind
             /\ Len(messages[k].content) = n
             /\ \A j \in 1..n : messages[k].content[j] = log[i + j - 1].content[1]

\* C14 witness: two chunks of one kind were merged into one message and a
\* chunk of another kind began the next message
C14_Witness ==
    /\ Len(ChunkLog) = 3
    /\ Len(messages) = 2
    /\ Len(messages[1].content) = 2
    /\ messages[1].content[1] # messages[1].content[2]
    /\ messages[2].kind # messages[1].kind

\* the place of the tool call update that opened the record now held under t
LastOpen(t) ==
    LET opens == {i \in DOMAIN folded : folded[i].u = "tool_call" /\ folded[i].id = t} IN
    IF opens = {} THEN 0 ELSE CHOOSE i \in opens : \A j \in opens : j <= i

\* the tool-call-updates folded into the record now held under t, in order
UpdatesOf(t) ==
    {i \in DOMAIN folded : /\ folded[i].u = "tool_call_update"
                           /\ folded[i].id = t
                           /\ LastOpen(t) # 0 /\ i > LastOpen(t)}

\* the content fragments of a set of updates, in the order of the updates
RECURSIVE FragmentsOf(_)
FragmentsOf(S) ==
    IF S = {} THEN <<>>
    ELSE LET i == CHOOSE x \in S : \A y \in S : y <= x
         IN FragmentsOf(S \ {i}) \o
            (IF folded[i].content = NoContent THEN <<>> ELSE folded[i].content)

\* C15: a tool call that has been updated has the status of its last update,
\* and its content is the content fragments of all its updates, appended in
\* the order of the updates.
C15_UpdateAppendsContent ==
    \A t \in ToolIds :
        (tool_calls[t].present /\ UpdatesOf(t) # {}) =>
            /\ tool_calls[t].status =
                  folded[CHOOSE i \in UpdatesOf(t) : \A j \in UpdatesOf(t) : j <= i].status
            /\ tool_calls[t].content = FragmentsOf(UpdatesOf(t))

\* C16: a tool call that an update moved to completed has completed_at
\* recorded, and the artifact its kind and its input determine is in the
\* artifact list: for a write tool call that the agent sent with a path in
\* its input, a file-created artifact for that path.
C16_CompletionExtractsArtifacts ==
    \A t \in ToolIds :
        (\E i \in UpdatesOf(t) : folded[i].status = "completed") =>
            /\ tool_calls[t].completed_at # 0
            /\ (folded[LastOpen(t)].kind = "write"
                    /\ folded[LastOpen(t)].raw_input # NoValue) =>
                  \E k \in DOMAIN artifacts :
                      /\ artifacts[k].type = "file_created"
                      /\ artifacts[k].path = folded[LastOpen(t)].raw_input
                      /\ artifacts[k].tool = t

\* the agent's chunks have all reached the session
StreamFolded == UpdIds(consumed) = updates

Changed ==
    {loc \in DOMAIN fs \cup DOMAIN fs' :
        loc \notin DOMAIN fs \/ loc \notin DOMAIN fs' \/ fs[loc] # fs'[loc]}

\* C6: every file operation acts only below granted entries: each location
\* it creates, removes or rewrites, and the location whose content it
\* returns, has, as the file system resolves it, a granted entry among its
\* ancestors; a path without one is rejected with no effect.
C6_EffectsWithinGrantedPaths ==
    [][/\ \A loc \in Changed : is_path_granted(granted_paths, loc)
       /\ (fsOps' # fsOps /\ lastCall'.code = 0 /\ ~IsErr(lastCall'.read))
             => is_path_granted(granted_paths, lastCall'.read)]_vars

CurrentlyGranted ==
    {g \in {ledgerLog[i].path : i \in DOMAIN ledgerLog} :
        \E i \in DOMAIN ledgerLog :
            /\ ledgerLog[i] = [op |-> "grant", path |-> g]
            /\ \A j \in DOMAIN ledgerLog :
                  j > i => ledgerLog[j] # [op |-> "revoke", path |-> g]}

FileOperations == {"read", "write", "delete", "list", "move", "execute"}

\* the entry i goes from strict to trust in this step
Weakened(i) ==
    /\ Len(entries') = Len(entries)
    /\ entries'[i].path = entries[i].path
    /\ entries[i].security_level = "strict"
    /\ entries'[i].security_level = "trust"

\* C20: when an entry granted at strict is granted again at trust, then for
\* every path below the entry and every operation: the operation requires
\* confirmation afterwards only if it did before, and the operations that
\* strict gates (all but read and list) require no confirmation afterwards.
C20_TrustAfterStrictWeakens ==
    [][\A i \in DOMAIN entries :
          Weakened(i) =>
              \A p \in CheckPaths, op \in FileOperations :
                  starts_with(normalize_path(fs, p), entries[i].path) =>
                      /\ requires_confirmation(entries', fs, p, op)
                            => requires_confirmation(entries, fs, p, op)
                      /\ op \notin {"read", "list"}
                            => ~requires_confirmation(entries', fs, p, op)]_vars

\* C21: for the path of every entry of the ledger, requires_confirmation
\* answers as the table says for the level that entry was granted at: under
\* strict every operation but read and list is gated, under
\* auto-accept-edits only delete and execute, under trust none.
C21_ConfirmationFollowsGrantedLevel ==
    \A i \in DOMAIN entries, op \in FileOperations :
        LET level == entries[i].security_level
            gated == CASE level = "strict" -> op \notin {"read", "list"}
                       [] level = "auto_accept_edits" -> op \in {"delete", "execute"}
                       [] level = "trust" -> FALSE
        IN requires_confirmation(entries, fs, entries[i].path, op) <=> gated

(***************************************************************************)
(* Properties of the session operations                                    *)
(***************************************************************************)
\* a call of load_session is made in this step: it is refused, or it sends
LoadSessionCalled ==
    \/ /\ Len(refused') = Len(refused) + 1
       /\ refused'[Len(refused')].op = "load_session"
    \/ /\ request_id' # request_id
       /\ callOf'[request_id] = "load_session"

\* C23: when load_session is called and the agent has advertised loadSession
\* in no initialize result, the call fails with
\* CapabilityNotSupported("loadSession") and no request is sent: no id is
\* taken, no slot is registered and nobody waits.
C23_LoadSessionNeedsCapability ==
    [][(LoadSessionCalled /\ ~advertised) =>
          /\ refused' = Append(refused, [op |-> "load_session",
                                         err |-> "CapabilityNotSupported",
                                         arg |-> "loadSession"])
          /\ UNCHANGED <<request_id, issued, reqKind, pending_requests, waiter,
                         callOf>>]_vars

\* C23 witness: initialize has returned with capabilities that lack
\* loadSession, and the load_session called after it was refused with
\* initialize still the only request sent
C23_Witness ==
    /\ capabilities = Caps(FALSE)
    /\ ~advertised
    /\ refused # <<>>
    /\ issued = <<1>>

\* C27: an operation other than initialize that was handed a response
\* carrying a JSON-RPC error has returned InvalidMessage with the code and
\* the message of that error.
C27_AgentErrorReturnedAsInvalidMessage ==
    \A r \in ReqIds, i \in DOMAIN delivLog :
        (/\ delivLog[i].to = r
         /\ delivLog[i].error # NoError
         /\ callOf[r] \notin {"none", "initialize"}
         /\ returned[r] # Pending)
        => /\ returned[r].outcome = "InvalidMessage"
           /\ returned[r].error = delivLog[i].error

(***************************************************************************)
(* Properties of the framing                                               *)
(***************************************************************************)
\* C24: when the loop has read all the agent wrote, the values it has parsed
\* are the complete JSON lines among the lines, in their order: what it
\* would have parsed with the lines that are no JSON left out.
C24_PreambleLeavesValuesAsTheyAre ==
    stdout_lines = <<>> =>
        values = SelectSeq(taken, LAMBDA line : from_str(line) = "ok")

\* C25: reading a line never leaves the buffer above the cap, a buffer that
\* the line takes above the cap is emptied, and after the buffer was dropped
\* the first complete JSON line the loop reads is parsed and handed on.
C25_OversizedBufferDroppedThenResync ==
    [][stdout_lines' # stdout_lines =>
          LET line == Head(stdout_lines) IN
          /\ Len(buffer') <= MaxBuffer
          /\ Len(push_line(buffer, line)) > MaxBuffer => buffer' = <<>>
          /\ (resync /\ from_str(line) = "ok") => values' = Append(values, line)]_vars

ArgvLine(command, args) == join(<<command>> \o args)

\* C8: a command was spawned only if the policy is enabled, the basename of
\* its executable is in the whitelist or the whitelist is empty, and the
\* full argv joined by spaces contains no blocked pattern.
C8_SpawnedOnlyIfAdmitted ==
    lastExec.outcome = "spawned" =>
        /\ policy.enabled
        /\ policy.allowed_commands = {}
              \/ cmd_name(lastExec.command) \in policy.allowed_commands
        /\ \A pat \in policy.blocked_patterns :
              ~contains(ArgvLine(lastExec.command, lastExec.args), pat)

\* C28: once terminate has returned the child process is not running, and
\* every subscriber of the notification stream is in the end told that the
\* stream is over.
C28_TerminateKillsChildAndClosesBroadcaster ==
    /\ [](terminated => child = "exited")
    /\ \A s \in Subs : (terminated /\ sub[s].on) ~> ObservedClosed(s)

\* C29: whenever the host has discarded a connection, its child process is
\* not left running.
C29_DiscardedConnectionLeavesNoChild ==
    connection = "discarded" => child = "exited"

\* C30: a change of a path that an active tool call declared is attributed
\* to a tool call that declared it (AcpOperation with its id and method); a
\* change nobody declared, while a tool call started within the window is
\* active, is Inferred from such a call; any other change is a UserAction.
C30_AttributionByDeclarationThenRecency ==
    attributed.path # NoCall =>
        IF attributed.declared # {}
          THEN /\ attributed.result.kind = "AcpOperation"
               /\ <<attributed.result.tool_call_id, attributed.result.method>>
                     \in attributed.declared
        ELSE IF attributed.recent # {}
          THEN /\ attributed.result.kind = "Inferred"
               /\ attributed.result.tool_call_id \in attributed.recent
        ELSE attributed.result = UserAction

\* C31: a built-in agent stays registered as built-in whatever add_agent,
\* update_agent and remove_agent calls are made, and remove_agent on its id
\* fails.
C31_BuiltinAgentStaysRegistered ==
    /\ \A id \in BuiltinIds : configs[id] # NoConfig /\ configs[id].builtin
    /\ (mgrCall.op = "remove_agent" /\ mgrCall.id \in BuiltinIds) => ~mgrCall.ok

\* C36: when a start_agent or stop_agent call has completed, the manager
\* holds a client for the agent exactly if the agent's status is Running; a
\* start that failed in connect or initialize leaves no client and no
\* Running status.
C36_ClientHeldIffRunning ==
    mgrCall.op \in {"start_agent", "stop_agent"} =>
        /\ clients[mgrCall.id] # "absent" <=> states[mgrCall.id] = "Running"
        /\ mgrCall.err \in {"ConnectionFailed", "InitializeFailed"} =>
              clients[mgrCall.id] = "absent" /\ states[mgrCall.id] # "Running"

\* C32: a command run for the agent runs in a working directory inside a
\* granted path, also when the request names no cwd.
C32_CommandsRunInsideGrantedPaths ==
    lastExec.outcome = "spawned" => lastExec.inside

\* C33: a terminal/execute request of the agent does not run the command
\* while the security level in force where it would run requires
\* confirmation for the execute operation.
C33_ExecuteWaitsForConfirmation ==
    lastExec.outcome = "spawned" => ~lastExec.confirmation

\* the ledger with the same entries in another order of granting
Reordered(ents) ==
    {[i \in DOMAIN ents |-> ents[f[i]]] :
        f \in {g \in [DOMAIN ents -> DOMAIN ents] :
                 \A i, j \in DOMAIN ents : g[i] = g[j] => i = j}}

\* C34: the security level used for a path, and with it
\* requires_confirmation, is the same for every order in which the entries
\* of the ledger could have been granted.
C34_LevelIndependentOfGrantOrder ==
    \A other \in Reordered(entries), p \in CheckPaths :
        /\ get_security_level(other, fs, p) = get_security_level(entries, fs, p)
        /\ \A op \in FileOperations :
              requires_confirmation(other, fs, p, op)
                  <=> requires_confirmation(entries, fs, p, op)

\* this step folds a tool-call (open) update whose id the TaskState knows
ToolCallFoldedAgain(id) ==
    /\ Len(folded') = Len(folded) + 1
    /\ folded'[Len(folded')].u = "tool_call"
    /\ folded'[Len(folded')].id = id
    /\ tool_calls[id].present

\* C38: a tool-call fold under an id the TaskState already holds keeps what
\* was accumulated under the id: the status, the content fragments,
\* started_at and completed_at of the record are as before.
C38_ToolCallFoldKeepsRecord ==
    [][\A id \in ToolIds :
          ToolCallFoldedAgain(id) =>
              /\ tool_calls'[id].status = tool_calls[id].status
              /\ tool_calls'[id].content = tool_calls[id].content
              /\ tool_calls'[id].started_at = tool_calls[id].started_at
              /\ tool_calls'[id].completed_at = tool_calls[id].completed_at]_vars

\* the dispatcher takes the response at the head of stdout_rx, sent under r
DispatcherTakes(r) ==
    /\ HeadIs("resp")
    /\ Head(stdout_rx).id = r
    /\ stdout_rx' = Tail(stdout_rx)

\* the outbound request path gives the request its id r
OutboundRegisters(r) ==
    /\ r = request_id
    /\ request_id' = next_id(request_id)

\* the outbound request path learns that request r could not be written
OutboundGivesUp(r) ==
    /\ waiter[r] = "sending"
    /\ waiter'[r] = "senderr"

\* C40: an entry leaves the waiter map only in a step of the dispatcher, and
\* an entry enters it only in a step of the outbound request path.
C40_DispatcherAloneRemoves ==
    [][/\ \A r \in pending_requests \ pending_requests' : DispatcherTakes(r)
       /\ \A r \in pending_requests' \ pending_requests : OutboundRegisters(r)]_vars

\* C40 as the code has it: an entry enters the waiter map only in a step of
\* the outbound request path; it leaves the map when the dispatcher takes a
\* response sent under its id, or when the outbound path that has just
\* inserted it finds that the request cannot be written.
C40_RemovedByDispatcherOrFailedSend ==
    [][/\ \A r \in pending_requests \ pending_requests' :
             DispatcherTakes(r) \/ OutboundGivesUp(r)
       /\ \A r \in pending_requests' \ pending_requests : OutboundRegisters(r)]_vars

\* one request was answered through the dispatcher and another was taken
\* back by the outbound path after a failed write
C40_BothRemovalsSeen ==
    \E r, q \in ReqIds :
        /\ waiter[r] = "senderr" /\ r \notin pending_requests
        /\ waiter[q] = "response" /\ q \notin pending_requests

\* the UI's manager has a session under the id s
Registered(s) == manager.sessions[s] # NoSession

\* C39: every session the UI's manager has registered is recorded under the
\* agent whose connection created it, and belongs to the connection the
\* manager holds: no result of an earlier agent's connect or session task is
\* stored under another agent's id or beside another agent's connection.
C39_SessionsStayWithTheirConnection ==
    \A s \in SessionIds :
        Registered(s) =>
            /\ manager.sessions[s].agent_id = connects[manager.sessions[s].made_on]
            /\ manager.connection # 0 =>
                   manager.sessions[s].made_on = manager.connection

\* the dispatcher has taken the agent's response to the last prompt request
\* sent for session s
TurnAnswered(s) ==
    /\ Registered(s)
    /\ manager.sessions[s].prompt # 0
    /\ \E k \in DOMAIN delivLog : delivLog[k].id = manager.sessions[s].prompt

InProgress == {"Pending", "Planning", "Executing", "Progressing"}

\* the session shows no turn under way
TurnOver(s) ==
    /\ ~manager.sessions[s].is_loading
    /\ manager.sessions[s].task \notin InProgress

\* C37: once the agent has answered the prompt request of a message sent from
\* the UI, the session's is_loading flag eventually is false and its task is
\* in none of the in-progress states.
C37_LoadingEndsWithTheTurn ==
    \A s \in SessionIds : TurnAnswered(s) ~> TurnOver(s)

\* the agent has written a response to request r and the caller still waits
ResponseEmitted(r) ==
    /\ waiter[r] = "waiting"
    /\ \/ \E k \in DOMAIN stdout_pipe : stdout_pipe[k].t = "resp" /\ stdout_pipe[k].id = r
       \/ \E k \in DOMAIN stdout_rx : stdout_rx[k].t = "resp" /\ stdout_rx[k].id = r

\* the reply to the agent's request q is in the agent's stdin
ReplyWritten(q) == \E k \in DOMAIN sent_responses : sent_responses[k].id = q

\* C35: with bounded stdin and stdout queues, an agent that blocks in its
\* writes, and callbacks and a slow consumer of updates in progress, every
\* response the agent has written is eventually delivered to its waiter and
\* the reply to every request the loop has taken is eventually written.
C35_ResponsesAndRepliesGetThrough ==
    /\ \A r \in ReqIds : ResponseEmitted(r) ~> waiter[r] = "response"
    /\ \A q \in 1..MaxWrites : (curReq = q) ~> ReplyWritten(q)

====
